---- MODULE Spec2Model ----
(***************************************************************************)
(* A model of discord-github-roles: the Scheduler (both revisions kept in  *)
(* src/src/scheduler/scheduler.ts) and the RoleSyncService reconciliation  *)
(* (src/src/services/role-sync.ts) with the part of the GitHub client it   *)
(* relies on (src/src/services/github-api.ts).                             *)
(*                                                                         *)
(* Three specifications share the module: SchedSpec drives the scheduler   *)
(* with a pass (syncAllGuilds) abstracted to its start and its outcome;    *)
(* SyncSpec drives syncAllGuilds / syncGuild step by step; ClientSpec      *)
(* drives one GitHubApiClient call, one HTTP exchange at a time.           *)
(***************************************************************************)
EXTENDS Integers, Sequences, FiniteSets, TLC

VARIABLES
    \* ---- Scheduler (scheduler.ts) ----
    rev,          \* which revision of the class runs: "timeout" | "interval"
    ready,        \* discordClient.isReady()
    timers,       \* the armed timers of the event loop, by handle
    syncTimer,    \* this.syncTimer (timeout revision), 0 is null
    syncInterval, \* this.syncInterval (interval revision), 0 is null
    isRunning,    \* this.isRunning
    sinceLast,    \* Date.now() - this.lastSyncTime, in ticks, saturating
    inflight,     \* runSync calls awaiting syncAllGuilds, by who called them
    trigReturn,   \* what the last triggerSync() call returned
    api,          \* history: the last of start()/stop() that was called
    \* ---- GitHub, Discord and the database (role-sync.ts, github-api.ts) ----
    upstream,     \* GitHub: the current login set of each repository and kind
    lru,          \* github-api.ts `cache`: cached contributors responses
    syncState,    \* table RepositorySyncState, by repositoryFullName
    dbCache,      \* tables ContributorCache / StargazerCache
    guildEnv,     \* Discord: what the client sees of each guild and the bot
    memberRoles,  \* Discord: the roles each guild member holds
    history,      \* table GuildSyncHistory, in order of creation
    \* ---- RoleSyncService (role-sync.ts) ----
    pass,         \* the running syncAllGuilds call
    sg,           \* the running syncGuild call
    \* ---- history variables and budgets ----
    lastFetched,  \* the set the last 200 response carried, per repository and kind
    prevRun,      \* per guild: whether its last attempt was clean and nothing changed since
    used,         \* how many passes, upstream changes and injected faults so far
    \* ---- GitHubApiClient (github-api.ts), one call at a time ----
    call,         \* the running request / getRepositoryStargazers call
    \* ---- /follow-repository and /unfollow-repository (bot.ts) ----
    followed,     \* tables GuildConfig and FollowedRepository, by guild
    commands,     \* the follow-repository handlers that are running
    \* ---- the reconciliation against the clock ----
    clock,        \* the time, and when the response cache and GitHub changed
    \* ---- the waits of GitHubApiClient, computed on their own ----
    waits         \* the inputs of one computation and its results

schedVars == <<rev, ready, timers, syncTimer, syncInterval, isRunning,
               sinceLast, inflight, trigReturn, api>>

clientVars == <<call>>

botVars == <<followed, commands>>

timeVars == <<clock>>

delayVars == <<waits>>

(***************************************************************************)
(* Bounds of the model.                                                    *)
(***************************************************************************)
MaxTimers == 2
MaxRuns == 2

(***************************************************************************)
(* Program constants, in ticks of the model's clock.  One tick is five     *)
(* minutes; a shorter positive delay is rounded up to one tick.            *)
(***************************************************************************)
\* DEFAULT_SYNC_INTERVAL_HOURS = 0.25: 15 minutes
SYNC_INTERVAL == 3
\* SYNC_ERROR_RETRY_MS = 30 minutes
SYNC_ERROR_RETRY == 6
\* 60000 ms when the client is not ready
NOT_READY_RETRY == 1
\* INITIAL_DELAY_MS = 0 (timeout revision)
INITIAL_DELAY_T == 0
\* INITIAL_DELAY_MS = 5000 (interval revision)
INITIAL_DELAY_I == 1

NoTimer == [kind |-> "none", left |-> 0]

FreeHandles(ts) == {i \in 1..MaxTimers : ts[i].kind = "none"}

\* The handle the next setTimeout / setInterval returns.
Fresh(ts) == CHOOSE i \in FreeHandles(ts) : \A j \in FreeHandles(ts) : i <= j

setTimeout(ts, kind, delay) == [ts EXCEPT ![Fresh(ts)] = [kind |-> kind, left |-> delay]]

\* clearTimeout / clearInterval; both revisions only call it on a non-null handle.
clearTimeout(ts, h) == IF h = 0 THEN ts ELSE [ts EXCEPT ![h] = NoTimer]

Armed == {i \in 1..MaxTimers : timers[i].kind # "none"}

InFlight == inflight.timer + inflight.trigger

\* now - this.lastSyncTime < this.syncIntervalMs * 0.9
TooRecent == 10 * sinceLast < 9 * SYNC_INTERVAL


syncVars == <<upstream, lru, syncState, dbCache, guildEnv, memberRoles, history,
              pass, sg, lastFetched, prevRun, used>>

vars == <<schedVars, syncVars, clientVars, botVars, timeVars, delayVars>>

(***************************************************************************)
(* Scheduler, timeout revision (scheduler.ts lines 13-124): one-shot       *)
(* timers, re-armed by runSync when its pass has ended.                    *)
(***************************************************************************)

\* A faulty variant of runSyncT: a client that is not ready makes runSync
\* return without arming anything.
runSyncTNoRearm(ts0, src) ==
    LET ts1 == clearTimeout(ts0, syncTimer) IN
    IF ~ready
    THEN /\ timers' = ts1
         /\ syncTimer' = 0
         /\ inflight' = inflight
         /\ trigReturn' = IF src = "trigger" THEN "true" ELSE trigReturn
    ELSE /\ InFlight < MaxRuns
         /\ timers' = ts1
         /\ syncTimer' = 0
         /\ inflight' = [inflight EXCEPT ![src] = @ + 1]
         /\ trigReturn' = trigReturn

\* runSync() up to its first await, called with the timers as the caller left
\* them: clears this.syncTimer, then either re-arms for a minute (client not
\* ready) and returns, or starts awaiting syncAllGuilds.
runSyncT(ts0, src) ==
    LET ts1 == clearTimeout(ts0, syncTimer) IN
    IF ~ready
    THEN /\ FreeHandles(ts1) # {}
         /\ timers' = setTimeout(ts1, "timeout", NOT_READY_RETRY)
         /\ syncTimer' = Fresh(ts1)
         /\ inflight' = inflight
         /\ trigReturn' = IF src = "trigger" THEN "true" ELSE trigReturn
    ELSE /\ InFlight < MaxRuns
         /\ timers' = ts1
         /\ syncTimer' = 0
         /\ inflight' = [inflight EXCEPT ![src] = @ + 1]
         /\ trigReturn' = trigReturn

startT ==
    /\ rev = "timeout"
    /\ api' = "started"
    /\ IF syncTimer # 0
       THEN UNCHANGED <<timers, syncTimer, isRunning>>
       ELSE /\ FreeHandles(timers) # {}
            /\ timers' = setTimeout(timers, "timeout", INITIAL_DELAY_T)
            /\ syncTimer' = Fresh(timers)
            /\ isRunning' = TRUE
    /\ UNCHANGED <<rev, ready, syncInterval, sinceLast, inflight, trigReturn, syncVars, clientVars, botVars, timeVars, delayVars>>

stopT ==
    /\ rev = "timeout"
    /\ api' = "stopped"
    /\ IF syncTimer # 0
       THEN /\ timers' = clearTimeout(timers, syncTimer)
            /\ syncTimer' = 0
            /\ isRunning' = FALSE
       ELSE UNCHANGED <<timers, syncTimer, isRunning>>
    /\ UNCHANGED <<rev, ready, syncInterval, sinceLast, inflight, trigReturn, syncVars, clientVars, botVars, timeVars, delayVars>>

\* A due one-shot timer fires: the event loop drops it and calls runSync().
fireT(h) ==
    /\ rev = "timeout"
    /\ timers[h].kind = "timeout"
    /\ timers[h].left = 0
    /\ runSyncT([timers EXCEPT ![h] = NoTimer], "timer")
    /\ UNCHANGED <<rev, ready, syncInterval, isRunning, sinceLast, api, syncVars, clientVars, botVars, timeVars, delayVars>>

\* A faulty variant of passEndT: the catch of runSync does not schedule
\* anything.
passEndTNoRetry(src, threw) ==
    /\ rev = "timeout"
    /\ inflight[src] > 0
    /\ FreeHandles(timers) # {}
    /\ timers' = IF threw THEN timers ELSE setTimeout(timers, "timeout", SYNC_INTERVAL)
    /\ syncTimer' = IF threw THEN syncTimer ELSE Fresh(timers)
    /\ inflight' = [inflight EXCEPT ![src] = @ - 1]
    /\ trigReturn' = IF src = "trigger" THEN "true" ELSE trigReturn
    /\ UNCHANGED <<rev, ready, syncInterval, isRunning, sinceLast, api, syncVars, clientVars, botVars, timeVars, delayVars>>

\* The awaited syncAllGuilds of one runSync settles: resolved (threw = FALSE)
\* re-arms after the sync interval, rejected after SYNC_ERROR_RETRY_MS; the
\* handle is stored over whatever this.syncTimer held.  runSync swallows the
\* error, so a triggerSync() awaiting it returns true either way.
passEndT(src, threw) ==
    /\ rev = "timeout"
    /\ inflight[src] > 0
    /\ FreeHandles(timers) # {}
    /\ timers' = setTimeout(timers, "timeout",
                     IF threw THEN SYNC_ERROR_RETRY ELSE SYNC_INTERVAL)
    /\ syncTimer' = Fresh(timers)
    /\ inflight' = [inflight EXCEPT ![src] = @ - 1]
    /\ trigReturn' = IF src = "trigger" THEN "true" ELSE trigReturn
    /\ UNCHANGED <<rev, ready, syncInterval, isRunning, sinceLast, api, syncVars, clientVars, botVars, timeVars, delayVars>>

triggerSyncT ==
    /\ rev = "timeout"
    /\ IF ~isRunning
       THEN /\ trigReturn' = "false"
            /\ UNCHANGED <<timers, syncTimer, inflight>>
       ELSE runSyncT(timers, "trigger")
    /\ UNCHANGED <<rev, ready, syncInterval, isRunning, sinceLast, api, syncVars, clientVars, botVars, timeVars, delayVars>>

(***************************************************************************)
(* Scheduler, interval revision (scheduler.ts lines 136-268): start() arms *)
(* a one-shot initial delay whose callback runs the first sync and sets up *)
(* a setInterval; runSync skips a cycle that comes too soon after the last.*)
(***************************************************************************)

\* runSync() up to its first await: returns at once when the client is not
\* ready or the last sync began less than 0.9 intervals ago, else stamps
\* this.lastSyncTime and starts awaiting syncAllGuilds.
runSyncI(src) ==
    IF ~ready \/ TooRecent
    THEN /\ inflight' = inflight
         /\ sinceLast' = sinceLast
         /\ trigReturn' = IF src = "trigger" THEN "true" ELSE trigReturn
    ELSE /\ InFlight < MaxRuns
         /\ inflight' = [inflight EXCEPT ![src] = @ + 1]
         /\ sinceLast' = 0
         /\ trigReturn' = trigReturn

startI ==
    /\ rev = "interval"
    /\ api' = "started"
    /\ IF syncInterval # 0
       THEN UNCHANGED <<timers, isRunning>>
       ELSE /\ FreeHandles(timers) # {}
            /\ timers' = setTimeout(timers, "initial", INITIAL_DELAY_I)
            /\ isRunning' = TRUE
    /\ UNCHANGED <<rev, ready, syncTimer, syncInterval, sinceLast, inflight,
                   trigReturn, syncVars, clientVars, botVars, timeVars, delayVars>>

stopI ==
    /\ rev = "interval"
    /\ api' = "stopped"
    /\ IF syncInterval # 0
       THEN /\ timers' = clearTimeout(timers, syncInterval)
            /\ syncInterval' = 0
            /\ isRunning' = FALSE
       ELSE UNCHANGED <<timers, syncInterval, isRunning>>
    /\ UNCHANGED <<rev, ready, syncTimer, sinceLast, inflight, trigReturn, syncVars, clientVars, botVars, timeVars, delayVars>>

\* The initial delay of a start() call elapses: its callback runs the first
\* sync, then stores a new setInterval handle in this.syncInterval.
fireInitialI(h) ==
    /\ rev = "interval"
    /\ timers[h].kind = "initial"
    /\ timers[h].left = 0
    /\ runSyncI("timer")
    /\ LET ts0 == [timers EXCEPT ![h] = NoTimer] IN
         /\ timers' = setTimeout(ts0, "interval", SYNC_INTERVAL)
         /\ syncInterval' = Fresh(ts0)
    /\ UNCHANGED <<rev, ready, syncTimer, isRunning, api, syncVars, clientVars, botVars, timeVars, delayVars>>

\* An interval timer comes due: it stays armed for the next period and calls
\* runSync().
fireIntervalI(h) ==
    /\ rev = "interval"
    /\ timers[h].kind = "interval"
    /\ timers[h].left = 0
    /\ runSyncI("timer")
    /\ timers' = [timers EXCEPT ![h].left = SYNC_INTERVAL]
    /\ UNCHANGED <<rev, ready, syncTimer, syncInterval, isRunning, api, syncVars, clientVars, botVars, timeVars, delayVars>>

\* The awaited syncAllGuilds settles; nothing is scheduled here, and a thrown
\* error is swallowed by runSync's catch.
passEndI(src, threw) ==
    /\ rev = "interval"
    /\ inflight[src] > 0
    /\ threw \in BOOLEAN
    /\ inflight' = [inflight EXCEPT ![src] = @ - 1]
    /\ trigReturn' = IF src = "trigger" THEN "true" ELSE trigReturn
    /\ UNCHANGED <<rev, ready, timers, syncTimer, syncInterval, isRunning,
                   sinceLast, api, syncVars, clientVars, botVars, timeVars, delayVars>>

triggerSyncI ==
    /\ rev = "interval"
    /\ IF ~isRunning
       THEN /\ trigReturn' = "false"
            /\ UNCHANGED <<inflight, sinceLast>>
       ELSE runSyncI("trigger")
    /\ UNCHANGED <<rev, ready, timers, syncTimer, syncInterval, isRunning, api,
                   syncVars, clientVars, botVars, timeVars, delayVars>>

(***************************************************************************)
(* The scheduler's environment: the Discord client becoming ready and the  *)
(* clock.  A tick passes only when no armed timer is due: the event loop *)
(* runs due callbacks first.                                               *)
(***************************************************************************)
clientReady ==
    /\ ~ready
    /\ ready' = TRUE
    /\ UNCHANGED <<rev, timers, syncTimer, syncInterval, isRunning, sinceLast,
                   inflight, trigReturn, api, syncVars, clientVars, botVars, timeVars, delayVars>>

Tick ==
    /\ \A h \in Armed : timers[h].left > 0
    /\ Armed # {} \/ (rev = "interval" /\ sinceLast < SYNC_INTERVAL)
    /\ timers' = [h \in 1..MaxTimers |->
                    IF timers[h].kind = "none" THEN NoTimer
                    ELSE [timers[h] EXCEPT !.left = @ - 1]]
    /\ sinceLast' = IF rev = "interval" /\ sinceLast < SYNC_INTERVAL
                    THEN sinceLast + 1 ELSE sinceLast
    /\ UNCHANGED <<rev, ready, syncTimer, syncInterval, isRunning, inflight,
                   trigReturn, api, syncVars, clientVars, botVars, timeVars, delayVars>>

(***************************************************************************)
(* The data the reconciliation works on.                                   *)
(***************************************************************************)
MaxPasses == 3
MaxChanges == 1
MaxFaults == 1

Guilds == {"g1", "g2", "g3", "g4"}
RepoA == "acme/a"
RepoB == "acme/b"
Repos == {RepoA, RepoB}
Kinds == {"contributor", "stargazer"}
\* Logins as GitHub returns them, before the client lowercases them.
Logins == {"Alice", "bob"}

\* An ETag is derived from the response body: equal sets carry equal ETags.
NoEtag == <<>>
ETag(set) == <<set>>

\* prisma.guildConfig rows with their FollowedRepository rows; a role id is
\* the kind's name, "null" when the kind is not configured.
guildConfigs ==
    [g \in Guilds |->
       CASE g = "g1" -> [guildId |-> g, contributorRoleId |-> "contributor",
                         stargazerRoleId |-> "stargazer",
                         repositories |-> <<RepoA, RepoB>>]
         [] g = "g2" -> [guildId |-> g, contributorRoleId |-> "null",
                         stargazerRoleId |-> "stargazer",
                         repositories |-> <<RepoB>>]
         [] g = "g3" -> [guildId |-> g, contributorRoleId |-> "null",
                         stargazerRoleId |-> "null",
                         repositories |-> <<RepoA>>]
         [] OTHER    -> [guildId |-> g, contributorRoleId |-> "contributor",
                         stargazerRoleId |-> "null",
                         repositories |-> <<>>]]

roleIdOf(cfg, kind) ==
    IF kind = "contributor" THEN cfg.contributorRoleId ELSE cfg.stargazerRoleId

\* prisma.user rows with their GitHub and Discord accounts ("null": not linked).
users ==
    << [id |-> "u1", gitHubAccount |-> "Alice", discordAccount |-> "d1"],
       [id |-> "u2", gitHubAccount |-> "bob",   discordAccount |-> "d2"],
       [id |-> "u3", gitHubAccount |-> "carol", discordAccount |-> "null"],
       [id |-> "u4", gitHubAccount |-> "null",  discordAccount |-> "d3"] >>

\* The members of each guild, by Discord id.
Members == [g \in Guilds |-> IF g = "g1" THEN {"d1", "d2", "d3"} ELSE {"d1"}]

\* String.prototype.toLowerCase on the account names in use.
toLowerCase(name) ==
    CASE name = "Alice" -> "alice"
      [] name = "Bob"   -> "bob"
      [] name = "Carol" -> "carol"
      [] name = "Acme"  -> "acme"
      [] name = "A"     -> "a"
      [] OTHER          -> name

\* What the Discord client shows of a guild: whether it is in guilds.cache,
\* whether the bot may manage roles, the bot's highest role position, and the
\* guild's roles with their positions.
EnvKinds == {"ok", "notFound", "noPermission", "botBelow", "roleMissing"}

EnvOf(v) ==
    [found       |-> v # "notFound",
     manageRoles |-> v # "noPermission",
     botPosition |-> IF v = "botBelow" THEN 2 ELSE 3,
     roles       |-> IF v = "roleMissing" THEN {"stargazer"} ELSE Kinds,
     position    |-> [k \in Kinds |-> IF k = "contributor" THEN 1 ELSE 2]]

NoEntry == [hit |-> FALSE, data |-> {}, etag |-> NoEtag]
NoData == [present |-> FALSE, contributors |-> {}, stargazers |-> {}]
NoState == [exists |-> FALSE, contributorEtag |-> NoEtag, stargazerEtag |-> NoEtag,
            lastSyncError |-> ""]

PassIdle == [phase |-> "idle", queue |-> <<>>, invoked |-> {}, threw |-> FALSE,
             findFailed |-> FALSE,
             \* history: the HTTP fetches the pass has issued, per list
             fetches |-> [r \in Repos |-> [k \in Kinds |-> 0]]]

SgIdle ==
    [phase |-> "idle", guild |-> "none", hist |-> 0, repos |-> <<>>, users |-> <<>>,
     repoDataMap |-> [r \in Repos |-> NoData],
     totalProcessed |-> 0, rolesAdded |-> 0, rolesRemoved |-> 0,
     \* history fields of the attempt
     requests |-> 0, calls |-> 0, failedRepos |-> {}, discordFault |-> FALSE,
     lookedUp |-> {}, adds |-> {}, removes |-> {},
     lruHit |-> FALSE, stable |-> TRUE, repeat |-> FALSE,
     how |-> [r \in Repos |-> [k \in Kinds |-> "none"]]]

(***************************************************************************)
(* GitHubApiClient (github-api.ts), as far as syncGuild uses it.  `fail`   *)
(* says whether the HTTP exchange ends in an error after the client's      *)
(* retries.                                                                *)
(***************************************************************************)

\* GitHub's answer to a conditional GET of one list: 304 when the ETag sent
\* is the list's current one, else 200 with the list and its ETag.
httpGet(r, kind, etag, fail) ==
    IF fail
    THEN [status |-> "error", data |-> {}, etag |-> NoEtag]
    ELSE IF etag # NoEtag /\ etag = ETag(upstream[r][kind])
    THEN [status |-> "304", data |-> {}, etag |-> ETag(upstream[r][kind])]
    ELSE [status |-> "200", data |-> upstream[r][kind],
          etag |-> ETag(upstream[r][kind])]

\* request() for the contributors endpoint with useCache = true: a cached
\* response is returned without any HTTP exchange and with notModified =
\* false; a 200 response is stored in the cache.  `expired`: the entry, if
\* any, has outlived the cache's ttl by the time of this call.
request(r, etag, fail, expired) ==
    IF lru[r].hit /\ ~expired
    THEN [threw |-> FALSE, data |-> lru[r].data, etag |-> lru[r].etag,
          notModified |-> FALSE, entry |-> lru[r], requested |-> FALSE]
    ELSE LET resp == httpGet(r, "contributor", etag, fail) IN
         [threw |-> resp.status = "error", data |-> resp.data, etag |-> resp.etag,
          notModified |-> resp.status = "304",
          entry |-> IF resp.status = "200"
                    THEN [hit |-> TRUE, data |-> resp.data, etag |-> resp.etag]
                    ELSE NoEntry,
          requested |-> TRUE]

getRepositoryContributors(r, etag, fail, expired) ==
    LET q == request(r, etag, fail, expired) IN
    [threw |-> q.threw, logins |-> {toLowerCase(x) : x \in q.data},
     etag |-> q.etag, notModified |-> q.notModified, entry |-> q.entry,
     requested |-> q.requested]

\* getRepositoryStargazers(): always an HTTP exchange (no response cache); the
\* pages of the list are taken as one response here.
getRepositoryStargazers(r, etag, fail) ==
    LET resp == httpGet(r, "stargazer", etag, fail) IN
    [threw |-> resp.status = "error", logins |-> {toLowerCase(x) : x \in resp.data},
     etag |-> resp.etag, notModified |-> resp.status = "304", requested |-> TRUE]

(***************************************************************************)
(* RoleSyncService.syncGuild, the body of its repository loop.             *)
(***************************************************************************)

\* A faulty variant of membershipOnNotModified: the null list of a 304
\* response is taken as the membership.
membershipFromNullList(cached) == {}

\* The membership used when the fetch answered notModified: the rows of the
\* cache table.
membershipOnNotModified(cached) == cached

\* The cache table after a fetch that was not notModified: replaced by the
\* fetched list only when that list is not empty.
cacheAfterFetch(cached, fetched) == IF fetched # {} THEN fetched ELSE cached

\* One kind's part of the loop body, given the client's answer `res`.
kindResult(res, cached) ==
    [logins |-> IF res.notModified THEN membershipOnNotModified(cached)
                ELSE res.logins,
     cache  |-> IF res.notModified THEN cached
                ELSE cacheAfterFetch(cached, res.logins),
     etag   |-> res.etag,
     how    |-> IF res.notModified THEN "cached"
                ELSE IF res.requested THEN "fresh" ELSE "lru"]

\* A faulty variant of stateAfterError: the error is not recorded.
stateAfterErrorUnrecorded(st0) == st0

\* The upsert in the catch of the repository loop: the error message is
\* stored in the repository's sync state, its ETags are left as they were.
stateAfterError(st0) == [st0 EXCEPT !.lastSyncError = "GitHub API error"]

\* A faulty variant of roleConfigured: every kind is fetched.
roleConfiguredAlways(cfg, kind) == TRUE

\* The guards `if (guildConfig.contributorRoleId)` and
\* `if (guildConfig.stargazerRoleId)` around the two fetches.
roleConfigured(cfg, kind) ==
    IF kind = "contributor" THEN cfg.contributorRoleId # "null"
    ELSE cfg.stargazerRoleId # "null"

\* One iteration of the repository loop for repository r of a guild with
\* configuration cfg: what it leaves in the database, the response cache and
\* repoDataMap.  failC / failS: the contributors / stargazers exchange fails.
fetchRepo(cfg, r, failC, failS, expired) ==
    LET st0 == IF syncState[r].exists THEN syncState[r]
               ELSE [NoState EXCEPT !.exists = TRUE]
        doC == roleConfigured(cfg, "contributor")
        resC == getRepositoryContributors(r, st0.contributorEtag, failC, expired)
        threwC == doC /\ resC.threw
        c == IF doC /\ ~threwC THEN kindResult(resC, dbCache[r].contributor)
             ELSE [logins |-> {}, cache |-> dbCache[r].contributor,
                   etag |-> st0.contributorEtag, how |-> "none"]
        doS == roleConfigured(cfg, "stargazer") /\ ~threwC
        resS == getRepositoryStargazers(r, st0.stargazerEtag, failS)
        threwS == doS /\ resS.threw
        s == IF doS /\ ~threwS THEN kindResult(resS, dbCache[r].stargazer)
             ELSE [logins |-> {}, cache |-> dbCache[r].stargazer,
                   etag |-> st0.stargazerEtag, how |-> "none"]
        threw == threwC \/ threwS
    IN  [threw     |-> threw,
         data      |-> IF threw THEN NoData
                       ELSE [present |-> TRUE, contributors |-> c.logins,
                             stargazers |-> s.logins],
         state     |-> IF threw
                       THEN stateAfterError(st0)
                       ELSE [exists |-> TRUE, contributorEtag |-> c.etag,
                             stargazerEtag |-> s.etag, lastSyncError |-> ""],
         cache     |-> [contributor |-> c.cache, stargazer |-> s.cache],
         entry     |-> IF doC THEN resC.entry ELSE lru[r],
         requests  |-> (IF doC /\ resC.requested THEN 1 ELSE 0)
                       + (IF doS THEN 1 ELSE 0),
         lruHit    |-> doC /\ ~resC.requested,
         http      |-> [contributor |-> IF doC /\ resC.requested THEN 1 ELSE 0,
                        stargazer |-> IF doS THEN 1 ELSE 0],
         how       |-> IF threw THEN [k \in Kinds |-> "none"]
                       ELSE [contributor |-> c.how, stargazer |-> s.how],
         fresh     |-> [contributor |->
                          doC /\ resC.requested /\ ~resC.threw /\ ~resC.notModified,
                        stargazer |-> doS /\ ~resS.threw /\ ~resS.notModified],
         fetched   |-> [contributor |->
                          IF doC /\ resC.requested /\ ~resC.threw /\ ~resC.notModified
                          THEN <<resC.logins>> ELSE lastFetched[r].contributor,
                        stargazer |->
                          IF doS /\ ~resS.threw /\ ~resS.notModified
                          THEN <<resS.logins>> ELSE lastFetched[r].stargazer]]

(***************************************************************************)
(* RoleSyncService.processContributorRole / processStargazerRole.          *)
(***************************************************************************)

\* A faulty variant of isMemberOfAny: the stored username is compared as it
\* is, without normalizing it.
isMemberExact(cfg, kind, githubUsername, repoDataMap) ==
    \E i \in 1..Len(cfg.repositories) :
        LET repoData == repoDataMap[cfg.repositories[i]] IN
        /\ repoData.present
        /\ githubUsername \in
             (IF kind = "contributor" THEN repoData.contributors
              ELSE repoData.stargazers)

\* The decision: the normalized login is in the kind's list of some followed
\* repository that has an entry in repoDataMap.
isMemberOfAny(cfg, kind, githubUsername, repoDataMap) ==
    \E i \in 1..Len(cfg.repositories) :
        LET repoData == repoDataMap[cfg.repositories[i]] IN
        /\ repoData.present
        /\ toLowerCase(githubUsername) \in
             (IF kind = "contributor" THEN repoData.contributors
              ELSE repoData.stargazers)

\* Discord refuses a role change for a role at or above the bot's highest.
discordRefuses(env, kind) == env.botPosition <= env.position[kind]

\* A faulty variant of hasRole: the member's roles are not looked at.
hasRoleUnchecked(held, kind) == FALSE

\* member.roles.cache.has(role.id)
hasRole(held, kind) == kind \in held

\* A faulty variant of processRole: added / removed are set before the call
\* to Discord, so a rejected call is counted too.
processRoleCountingRejected(cfg, env, kind, githubUsername, repoDataMap, held, fault) ==
    LET wanted == isMemberOfAny(cfg, kind, githubUsername, repoDataMap)
        has == hasRole(held, kind)
        rejected == fault \/ discordRefuses(env, kind)
        skip == [held |-> held, added |-> 0, removed |-> 0, called |-> FALSE,
                 failed |-> FALSE, op |-> "none"]
    IN  IF roleIdOf(cfg, kind) = "null" THEN skip
        ELSE IF kind \notin env.roles THEN skip
        ELSE IF wanted /\ ~has
        THEN [held |-> IF rejected THEN held ELSE held \cup {kind},
              added |-> 1, removed |-> 0, called |-> TRUE, failed |-> rejected,
              op |-> "add"]
        ELSE IF ~wanted /\ has
        THEN [held |-> IF rejected THEN held ELSE held \ {kind},
              added |-> 0, removed |-> 1, called |-> TRUE, failed |-> rejected,
              op |-> "remove"]
        ELSE skip

\* A faulty variant of configuredRole: a kind without a configured role is
\* processed like a configured one.
configuredRoleAny(cfg, kind) == kind

\* The early return `if (!guildConfig.contributorRoleId)` of
\* process<Kind>Role and the guard around its call: the role id to work on.
configuredRole(cfg, kind) == roleIdOf(cfg, kind)

\* process<Kind>Role for a member holding `held`: the member's roles after
\* it, what it adds to the counters, and whether it called Discord.  `fault`:
\* the Discord call, if one is made, is rejected.
processRole(cfg, env, kind, githubUsername, repoDataMap, held, fault) ==
    LET wanted == isMemberOfAny(cfg, kind, githubUsername, repoDataMap)
        has == hasRole(held, kind)
        rejected == fault \/ discordRefuses(env, kind)
        skip == [held |-> held, added |-> 0, removed |-> 0, called |-> FALSE,
                 failed |-> FALSE, op |-> "none"]
    IN  IF configuredRole(cfg, kind) = "null" THEN skip
        ELSE IF kind \notin env.roles THEN skip
        ELSE IF wanted /\ ~has
        THEN IF rejected
             THEN [skip EXCEPT !.called = TRUE, !.failed = TRUE, !.op = "add"]
             ELSE [held |-> held \cup {kind}, added |-> 1, removed |-> 0,
                   called |-> TRUE, failed |-> FALSE, op |-> "add"]
        ELSE IF ~wanted /\ has
        THEN IF rejected
             THEN [skip EXCEPT !.called = TRUE, !.failed = TRUE, !.op = "remove"]
             ELSE [held |-> held \ {kind}, added |-> 0, removed |-> 1,
                   called |-> TRUE, failed |-> FALSE, op |-> "remove"]
        ELSE skip

(***************************************************************************)
(* RoleSyncService.syncAllGuilds and syncGuild, one action per stretch     *)
(* between awaits that matters to the outcome.  Passes run one at a time   *)
(* here.                                                                   *)
(***************************************************************************)
GuildOrder == <<"g1", "g2", "g3", "g4">>

\* A faulty variant of eligible: `repositories: { some: {} }` is missing.
eligibleWithoutRepository(cfg) ==
    cfg.contributorRoleId # "null" \/ cfg.stargazerRoleId # "null"

\* The `where` of prisma.guildConfig.findMany: a role kind configured and a
\* followed repository.
eligible(cfg) ==
    /\ cfg.contributorRoleId # "null" \/ cfg.stargazerRoleId # "null"
    /\ cfg.repositories # <<>>

findManyGuildConfigs == SelectSeq(GuildOrder, LAMBDA g : eligible(guildConfigs[g]))

\* A faulty variant of bothLinked: one linked account is enough.
eitherLinked(user) == user.discordAccount # "null" \/ user.gitHubAccount # "null"

\* discordAccount: { isNot: null }, gitHubAccount: { isNot: null } in the query,
\* and again `!user.discordAccount || !user.gitHubAccount` in the user loop.
bothLinked(user) == user.discordAccount # "null" /\ user.gitHubAccount # "null"

\* prisma.user.findMany: the users with both accounts.
linkedUsers == SelectSeq(users, bothLinked)

reposOf(g) == {guildConfigs[g].repositories[i] :
                 i \in 1..Len(guildConfigs[g].repositories)}

spend(faults) == [used EXCEPT !.faults = @ + faults]

\* syncAllGuilds() up to its loop; `fault`: findMany rejects, and the call
\* rethrows.
syncAllGuildsStart(fault) ==
    /\ pass.phase \in {"idle", "done"}
    /\ used.passes < MaxPasses
    /\ fault => used.faults < MaxFaults
    /\ pass' = IF fault
               THEN [PassIdle EXCEPT !.phase = "done", !.threw = TRUE,
                                     !.findFailed = TRUE]
               ELSE [PassIdle EXCEPT !.phase = "running",
                                     !.queue = findManyGuildConfigs]
    /\ used' = [used EXCEPT !.passes = @ + 1,
                            !.faults = @ + (IF fault THEN 1 ELSE 0)]
    /\ UNCHANGED <<upstream, lru, syncState, dbCache, guildEnv, memberRoles,
                   history, sg, lastFetched, prevRun, schedVars, clientVars, botVars, timeVars, delayVars>>

\* A faulty variant of afterGuild: a throwing syncGuild call ends the loop and
\* is rethrown by syncAllGuilds.
afterGuildRethrow(p, g, threw) ==
    IF threw
    THEN [p EXCEPT !.queue = <<>>, !.invoked = @ \cup {g}, !.threw = TRUE]
    ELSE [p EXCEPT !.queue = Tail(@), !.invoked = @ \cup {g}]

\* The try/catch around each syncGuild call in the loop of syncAllGuilds:
\* whether the call returned or threw, the loop goes on to the next
\* configuration and the pass does not throw.
afterGuild(p, g, threw) ==
    [p EXCEPT !.queue = Tail(@), !.invoked = @ \cup {g}]

\* A faulty variant of createHistory: the guild's earlier records are opened
\* again when a new attempt starts.
createHistoryReopening(hist, g) ==
    Append([i \in 1..Len(hist) |->
              IF hist[i].guildConfigId = g
              THEN [hist[i] EXCEPT !.completed = FALSE] ELSE hist[i]],
           [guildConfigId |-> g, completed |-> FALSE,
            success |-> FALSE, errorMessage |-> "",
            totalProcessed |-> 0, rolesAdded |-> 0, rolesRemoved |-> 0])

\* prisma.guildSyncHistory.create at the start of syncGuild: a new record,
\* without completedAt, after the records there are.
createHistory(hist, g) ==
    Append(hist,
           [guildConfigId |-> g, completed |-> FALSE,
            success |-> FALSE, errorMessage |-> "",
            totalProcessed |-> 0, rolesAdded |-> 0, rolesRemoved |-> 0])

\* The loop of syncAllGuilds calls syncGuild for the next configuration, which
\* creates its history record; `fault`: the create rejects, syncGuild throws
\* and the loop's catch logs it.
syncGuildStart(fault) ==
    /\ pass.phase = "running"
    /\ pass.queue # <<>>
    /\ sg.phase \in {"idle", "done"}
    /\ fault => used.faults < MaxFaults
    /\ LET g == Head(pass.queue) IN
         /\ pass' = afterGuild(pass, g, fault)
         /\ prevRun' = [prevRun EXCEPT ![g] = FALSE]
         /\ IF fault
            THEN /\ sg' = SgIdle
                 /\ history' = history
            ELSE /\ sg' = [SgIdle EXCEPT !.phase = "check", !.guild = g,
                                         !.hist = Len(history) + 1,
                                         !.repeat = prevRun[g]]
                 /\ history' = createHistory(history, g)
    /\ used' = spend(IF fault THEN 1 ELSE 0)
    /\ UNCHANGED <<upstream, lru, syncState, dbCache, guildEnv, memberRoles,
                   lastFetched, schedVars, clientVars, botVars, timeVars, delayVars>>

\* A faulty variant of finalized: the update in the catch does not set
\* completedAt.
finalizedOnSuccessOnly(rec, success, message) ==
    [rec EXCEPT !.completed = success, !.success = success,
                !.errorMessage = message,
                !.totalProcessed = sg.totalProcessed,
                !.rolesAdded = sg.rolesAdded,
                !.rolesRemoved = sg.rolesRemoved]

\* The history record as syncGuild's final update leaves it.
finalized(rec, success, message) ==
    [rec EXCEPT !.completed = TRUE, !.success = success,
                !.errorMessage = message,
                !.totalProcessed = sg.totalProcessed,
                !.rolesAdded = sg.rolesAdded,
                !.rolesRemoved = sg.rolesRemoved]

\* A faulty variant of preconditionError: the permission check is missing.
preconditionErrorGuildOnly(env) ==
    IF ~env.found THEN "Guild not found in Discord" ELSE ""

\* A variant of preconditionError in which a bot ranking at or below a role
\* of the guild is an error, not a warning.
preconditionErrorHierarchy(env) ==
    IF ~env.found THEN "Guild not found in Discord"
    ELSE IF ~env.manageRoles
    THEN "Bot does not have Manage Roles permission in this guild"
    ELSE IF \E k \in env.roles : discordRefuses(env, k)
    THEN "Bot cannot assign a configured role"
    ELSE ""

\* The error syncGuild's checks throw, "" when they pass.  A bot that ranks
\* at or below a configured role only gets a warning logged.
preconditionError(env) ==
    IF ~env.found THEN "Guild not found in Discord"
    ELSE IF ~env.manageRoles
    THEN "Bot does not have Manage Roles permission in this guild"
    ELSE ""

\* Guild lookup, permission check, hierarchy warnings and the load of the
\* linked users; a failed check is caught by syncGuild's catch, which
\* finalizes the record as failed.
syncGuildCheck ==
    /\ sg.phase = "check"
    /\ LET msg == preconditionError(guildEnv[sg.guild]) IN
       IF msg # ""
       THEN /\ history' = [history EXCEPT ![sg.hist] = finalized(@, FALSE, msg)]
            /\ sg' = [sg EXCEPT !.phase = "done"]
       ELSE /\ history' = history
            /\ sg' = [sg EXCEPT !.phase = IF guildConfigs[sg.guild].repositories = <<>>
                                          THEN "users" ELSE "fetch",
                                !.repos = guildConfigs[sg.guild].repositories,
                                !.users = linkedUsers]
    /\ UNCHANGED <<upstream, lru, syncState, dbCache, guildEnv, memberRoles, pass,
                   lastFetched, prevRun, used, schedVars, clientVars, botVars, timeVars, delayVars>>

\* A faulty variant of remainingRepos: a failed iteration is run again.
remainingReposRetry(repos, threw) == IF threw THEN repos ELSE Tail(repos)

\* A faulty variant of remainingRepos: a failed iteration ends the loop.
remainingReposBreak(repos, threw) == IF threw THEN <<>> ELSE Tail(repos)

\* The catch inside the repository loop: a failed iteration is logged and
\* recorded, and the loop continues with the next repository.
remainingRepos(repos, threw) == Tail(repos)

\* One iteration of the repository loop, its catch included.
syncGuildFetchRepo(failC, failS, expired) ==
    /\ sg.phase = "fetch"
    /\ sg.repos # <<>>
    /\ LET r == Head(sg.repos)
           cfg == guildConfigs[sg.guild]
           res == fetchRepo(cfg, r, failC, failS, expired)
           rest == remainingRepos(sg.repos, res.threw)
       IN
         /\ expired => cfg.contributorRoleId # "null" /\ lru[r].hit
         /\ failC => cfg.contributorRoleId # "null" /\ (lru[r].hit => expired)
         /\ failS => cfg.stargazerRoleId # "null" /\ ~failC
         /\ (failC \/ failS) => used.faults < MaxFaults
         /\ syncState' = [syncState EXCEPT ![r] = res.state]
         /\ dbCache' = [dbCache EXCEPT ![r] = res.cache]
         /\ lru' = [lru EXCEPT ![r] = res.entry]
         /\ lastFetched' = [lastFetched EXCEPT ![r] = res.fetched]
         /\ sg' = [sg EXCEPT
                     !.repos = rest,
                     !.phase = IF rest = <<>> THEN "users" ELSE "fetch",
                     !.repoDataMap[r] = res.data,
                     !.requests = @ + res.requests,
                     !.failedRepos = IF res.threw THEN @ \cup {r} ELSE @,
                     !.lruHit = @ \/ res.lruHit,
                     !.how[r] = res.how]
         /\ pass' = [pass EXCEPT !.fetches[r] =
                        [k \in Kinds |-> @[k] + res.http[k]]]
    /\ used' = spend(IF failC \/ failS THEN 1 ELSE 0)
    /\ UNCHANGED <<upstream, guildEnv, memberRoles, history, prevRun, schedVars, clientVars, botVars, timeVars, delayVars>>

\* A faulty variant of remainingUsers: a rejected Discord call ends the loop.
remainingUsersAbort(list, failed) == IF failed THEN <<>> ELSE Tail(list)

\* The .catch(() => null) of the member lookup, the try/catch around each role
\* call and the catch of the user loop: whatever was rejected in an iteration,
\* the loop continues with the next user.
remainingUsers(list, failed) == Tail(list)

\* One iteration of the user loop.  `fault` names the Discord call of this
\* iteration that is rejected: the member lookup (then the user counts as not
\* in the guild) or a role change (caught and logged by process<Kind>Role).
syncGuildProcessUser(fault) ==
    /\ sg.phase = "users"
    /\ sg.users # <<>>
    /\ fault # "none" => used.faults < MaxFaults
    /\ LET user == Head(sg.users)
           g == sg.guild
           cfg == guildConfigs[g]
           env == guildEnv[g]
           d == user.discordAccount
           linked == bothLinked(user)
           isMember == linked /\ d \in Members[g]
           held == IF isMember THEN memberRoles[g][d] ELSE {}
           c == processRole(cfg, env, "contributor", user.gitHubAccount,
                            sg.repoDataMap, held, fault = "contributor")
           s == processRole(cfg, env, "stargazer", user.gitHubAccount,
                            sg.repoDataMap, c.held, fault = "stargazer")
           failed == fault = "lookup" \/ (isMember /\ (c.failed \/ s.failed))
           left == remainingUsers(sg.users, failed)
           rest == [sg EXCEPT !.users = left,
                      !.phase = IF left = <<>> THEN "final" ELSE "users"]
           looked == [rest EXCEPT !.lookedUp = IF linked THEN @ \cup {d} ELSE @]
       IN
         /\ fault = "lookup" => isMember
         /\ fault = "contributor" => isMember /\ c.called
         /\ fault = "stargazer" => isMember /\ s.called
         /\ IF ~isMember \/ fault = "lookup"
            THEN /\ memberRoles' = memberRoles
                 /\ sg' = [looked EXCEPT !.discordFault = @ \/ fault = "lookup"]
            ELSE /\ memberRoles' = [memberRoles EXCEPT ![g][d] = s.held]
                 /\ sg' = [looked EXCEPT
                             !.totalProcessed = @ + 1,
                             !.rolesAdded = @ + c.added + s.added,
                             !.rolesRemoved = @ + c.removed + s.removed,
                             !.calls = @ + (IF c.called THEN 1 ELSE 0)
                                         + (IF s.called THEN 1 ELSE 0),
                             !.adds = @ \cup {<<d, r.kind>> : r \in
                                         {x \in {[kind |-> "contributor", op |-> c.op],
                                                  [kind |-> "stargazer", op |-> s.op]} :
                                            x.op = "add"}},
                             !.removes = @ \cup {<<d, r.kind>> : r \in
                                         {x \in {[kind |-> "contributor", op |-> c.op],
                                                  [kind |-> "stargazer", op |-> s.op]} :
                                            x.op = "remove"}},
                             !.discordFault = @ \/ c.failed \/ s.failed]
    /\ used' = spend(IF fault # "none" THEN 1 ELSE 0)
    /\ UNCHANGED <<upstream, lru, syncState, dbCache, guildEnv, history, pass,
                   lastFetched, prevRun, schedVars, clientVars, botVars, timeVars, delayVars>>

\* The update that finalizes the history record as successful.
syncGuildComplete ==
    /\ sg.phase = "final"
    /\ history' = [history EXCEPT ![sg.hist] = finalized(@, TRUE, "")]
    /\ sg' = [sg EXCEPT !.phase = "done"]
    /\ prevRun' = [prevRun EXCEPT ![sg.guild] =
                      /\ sg.failedRepos = {}
                      /\ ~sg.discordFault
                      /\ ~sg.lruHit
                      /\ sg.stable]
    /\ UNCHANGED <<upstream, lru, syncState, dbCache, guildEnv, memberRoles, pass,
                   lastFetched, used, schedVars, clientVars, botVars, timeVars, delayVars>>

\* The loop has gone through every configuration: syncAllGuilds returns.
syncAllGuildsEnd ==
    /\ pass.phase = "running"
    /\ pass.queue = <<>>
    /\ sg.phase \in {"idle", "done"}
    /\ pass' = [pass EXCEPT !.phase = "done"]
    /\ sg' = SgIdle
    /\ UNCHANGED <<upstream, lru, syncState, dbCache, guildEnv, memberRoles,
                   history, lastFetched, prevRun, used, schedVars, clientVars, botVars, timeVars, delayVars>>

(***************************************************************************)
(* The environment of the reconciliation.                                  *)
(***************************************************************************)

\* A repository's contributors or stargazers change on GitHub.
upstreamChange(r, kind, set) ==
    /\ used.changes < MaxChanges
    /\ set # upstream[r][kind]
    /\ upstream' = [upstream EXCEPT ![r][kind] = set]
    /\ prevRun' = [g \in Guilds |-> prevRun[g] /\ r \notin reposOf(g)]
    /\ sg' = IF sg.phase # "idle" /\ r \in reposOf(sg.guild)
             THEN [sg EXCEPT !.stable = FALSE] ELSE sg
    /\ used' = [used EXCEPT !.changes = @ + 1]
    /\ UNCHANGED <<lru, syncState, dbCache, guildEnv, memberRoles, history, pass,
                   lastFetched, schedVars, clientVars, botVars, timeVars, delayVars>>

(***************************************************************************)
(* Initial states and the two specifications.                              *)
(***************************************************************************)
NoSets == [r \in Repos |-> [k \in Kinds |-> {}]]

\* The lists on GitHub when the bot is installed: some empty, some not.
UpstreamSeed ==
    [NoSets EXCEPT ![RepoA].contributor = {"Alice"},
                   ![RepoB].stargazer = {"Alice", "bob"}]

\* The roles members hold when the bot is installed: one member of g1 was
\* given both managed roles by hand and holds a role of the guild the bot has
\* nothing to do with; the member who has linked no GitHub account holds the
\* stargazer role; and the member of g2 holds the role that g1 uses for its
\* contributors and g2 has not configured.
RoleSeed ==
    [g \in Guilds |-> [d \in Members[g] |->
        IF g = "g1" /\ d = "d2" THEN Kinds \cup {"moderator"}
        ELSE IF d = "d3" THEN {"stargazer"}
        ELSE IF g = "g2" THEN {"contributor"} ELSE {}]]

SyncFresh ==
    /\ lru = [r \in Repos |-> NoEntry]
    /\ syncState = [r \in Repos |-> NoState]
    /\ dbCache = NoSets
    /\ history = <<>>
    /\ pass = PassIdle
    /\ sg = SgIdle
    /\ lastFetched = [r \in Repos |-> [k \in Kinds |-> <<>>]]
    /\ prevRun = [g \in Guilds |-> FALSE]
    /\ used = [passes |-> 0, changes |-> 0, faults |-> 0]

(***************************************************************************)
(* GitHubApiClient, one HTTP exchange at a time (github-api.ts).           *)
(*                                                                         *)
(* A call is either getRepositoryContributors, which goes through          *)
(* request() and its retries, or getRepositoryStargazers, which fetches    *)
(* its pages itself.  GitHub serves a chain of pages: page i carries a     *)
(* Link header with rel="next" exactly when a page i + 1 exists.  Times    *)
(* are milliseconds.                                                       *)
(***************************************************************************)
MaxPages == 3

maxRetries == 3
RESET_BUFFER == 1000
BACKOFF_BASE == 1000
BACKOFF_CAP == 60000

\* A page of the list as GitHub returns it: logins in their stored case.
Pages == {<<>>, <<"Alice">>, <<"bob">>, <<"Alice", "bob">>}

\* The chains GitHub serves: only the last page of a list can be empty.
PageChains ==
    {ch \in UNION {[1..n -> Pages] : n \in 1..MaxPages} :
        \A i \in 1..(Len(ch) - 1) : ch[i] # <<>>}

\* Math.random() * 1000, at its two ends.
Jitter == {0, 999}

\* A response as the client reads it: the status (0: fetch itself rejected
\* with a TypeError), x-ratelimit-remaining, x-ratelimit-reset as the time
\* left until the reset (<<>> when the header is absent) and retry-after in
\* seconds (<<>> when absent).
NoResponse == [status |-> 0, remaining |-> "null", reset |-> <<>>, retryAfter |-> <<>>]
Plain(status) == [NoResponse EXCEPT !.status = status]

RateLimitResponses ==
    {[status |-> s, remaining |-> "0", reset |-> <<t>>, retryAfter |-> <<>>] :
        s \in {403, 429}, t \in {-500, 2000}}
    \cup {[status |-> s, remaining |-> "null", reset |-> <<>>, retryAfter |-> <<2>>] :
        s \in {403, 429}}
    \cup {Plain(403), Plain(429)}

\* What GitHub may answer; 304 only to a request that sent If-None-Match.
Responses(conditional) ==
    {Plain(0), Plain(200), Plain(500)} \cup RateLimitResponses
    \cup (IF conditional THEN {Plain(304)} ELSE {})

CallIdle ==
    [op |-> "none", phase |-> "idle", pages |-> <<>>, etag |-> FALSE,
     retryCount |-> 0, attempts |-> 0, nextUrl |-> 0, list |-> <<>>,
     notModified |-> FALSE, slept |-> 0, last |-> NoResponse, error |-> ""]

Min(a, b) == IF a < b THEN a ELSE b
Max(a, b) == IF a > b THEN a ELSE b

\* data.map((user) => user.login.toLowerCase())
mapLogins(page) == [i \in 1..Len(page) |-> toLowerCase(page[i])]

\* The page the Link header of page i names as rel="next", 0 for none.
getNextPageUrl(pages, i) == IF i < Len(pages) THEN i + 1 ELSE 0

\* A faulty variant of calculateBackoffDelay: the Math.min with 60000 is
\* missing.
calculateBackoffDelayUncapped(retryCount, jitter) ==
    BACKOFF_BASE * 2^retryCount + jitter

calculateBackoffDelay(retryCount, jitter) ==
    Min(BACKOFF_BASE * 2^retryCount + jitter, BACKOFF_CAP)

\* retryCount < this.maxRetries
mayRetryInclusive(retryCount) == retryCount <= maxRetries
mayRetry(retryCount) == retryCount < maxRetries

isRateLimit(resp) == resp.status \in {403, 429}
isPrimary(resp) == isRateLimit(resp) /\ resp.remaining = "0" /\ resp.reset # <<>>
isSecondary(resp) == isRateLimit(resp) /\ ~isPrimary(resp) /\ resp.retryAfter # <<>>

\* How long request() sleeps before retrying a 403/429.
rateLimitWait(resp, retryCount, jitter) ==
    CASE isPrimary(resp)   -> Max(0, resp.reset[1]) + RESET_BUFFER
      [] isSecondary(resp) -> resp.retryAfter[1] * 1000
      [] OTHER             -> calculateBackoffDelay(retryCount, jitter)

(***************************************************************************)
(* calculateBackoffDelay and the primary rate-limit wait as functions of   *)
(* their inputs: retry numbers beyond maxRetries included, so that the cap *)
(* of 60 s is reached.                                                     *)
(***************************************************************************)
MaxRetryNumber == 7

\* Math.random() * 1000 is in [0, 1000): both ends and the middle.
JitterValues == Jitter \cup {500}

\* parseInt(rateLimitReset) * 1000 - Date.now(): a reset in the past, now,
\* and ahead.
ResetDistances == {-5000, -1, 0, 1, 2000}

NotComputed == -1

DelayIdle ==
    [retryCount |-> 0, jitter |-> 0, untilReset |-> 0,
     backoff |-> NotComputed, wait |-> NotComputed]

DelayInputs ==
    {[DelayIdle EXCEPT !.retryCount = n, !.jitter = j, !.untilReset = t] :
        n \in 0..MaxRetryNumber, j \in JitterValues, t \in ResetDistances}

\* const delay = this.calculateBackoffDelay(retryCount)
delayBackoff ==
    /\ waits.backoff = NotComputed
    /\ waits' = [waits EXCEPT
                   !.backoff = calculateBackoffDelay(waits.retryCount, waits.jitter)]
    /\ UNCHANGED <<schedVars, syncVars, clientVars, botVars, timeVars>>

\* const waitTime = Math.max(0, resetTime - Date.now()) + 1000
delayRateLimit ==
    /\ waits.wait = NotComputed
    /\ waits' = [waits EXCEPT
                   !.wait = rateLimitWait(
                               [status |-> 403, remaining |-> "0",
                                reset |-> <<waits.untilReset>>,
                                retryAfter |-> <<>>],
                               waits.retryCount, waits.jitter)]
    /\ UNCHANGED <<schedVars, syncVars, clientVars, botVars, timeVars>>

resolved(c, list, notModified) ==
    [c EXCEPT !.phase = "resolved", !.list = list, !.notModified = notModified]
rejected(c, name) == [c EXCEPT !.phase = "rejected", !.error = name]
sleeping(c, ms) == [c EXCEPT !.phase = "sleep", !.slept = ms]

\* getRepositoryContributors(owner, repo, etag) entering request(); `cached`
\* is what the LRU cache holds for the endpoint (<<>>: nothing).
callContributors(pages, etag, cached) ==
    /\ call.phase = "idle"
    /\ LET c == [CallIdle EXCEPT !.op = "contributors", !.pages = pages,
                                 !.etag = etag, !.nextUrl = 1]
       IN  call' = IF cached # <<>>
                   THEN resolved(c, mapLogins(cached[1]), FALSE)
                   ELSE [c EXCEPT !.phase = "fetch"]
    /\ UNCHANGED <<schedVars, syncVars, botVars, timeVars, delayVars>>

\* One pass through the body of request(): throttledFetch and what follows.
\* A retry is a nested call whose promise is returned without being awaited,
\* so what the nested call decides is what the caller sees.
requestFetch(resp, jitter) ==
    /\ call.op = "contributors"
    /\ call.phase = "fetch"
    /\ resp \in Responses(call.etag)
    /\ LET c == [call EXCEPT !.attempts = @ + 1, !.last = resp]
       IN  call' =
             CASE resp.status = 0 ->
                    IF mayRetry(call.retryCount)
                    THEN sleeping(c, calculateBackoffDelay(call.retryCount, jitter))
                    ELSE rejected(c, "TypeError")
               [] resp.status = 304 -> resolved(c, <<>>, TRUE)
               [] isRateLimit(resp) /\ mayRetry(call.retryCount) ->
                    sleeping(c, rateLimitWait(resp, call.retryCount, jitter))
               [] resp.status = 200 ->
                    resolved(c, mapLogins(call.pages[call.nextUrl]), FALSE)
               [] OTHER -> rejected(c, "Error")
    /\ UNCHANGED <<schedVars, syncVars, botVars, timeVars, delayVars>>

\* The sleep is over: this.request(endpoint, options, useCache, etag, retryCount + 1)
requestRetry ==
    /\ call.op = "contributors"
    /\ call.phase = "sleep"
    /\ call' = [call EXCEPT !.phase = "fetch", !.retryCount = @ + 1]
    /\ UNCHANGED <<schedVars, syncVars, botVars, timeVars, delayVars>>

\* getRepositoryStargazers(owner, repo, etag) up to its first throttledFetch.
callStargazers(pages, etag) ==
    /\ call.phase = "idle"
    /\ call' = [CallIdle EXCEPT !.op = "stargazers", !.pages = pages, !.etag = etag,
                                !.nextUrl = 1, !.phase = "fetch"]
    /\ UNCHANGED <<schedVars, syncVars, botVars, timeVars, delayVars>>

\* What getRepositoryStargazers does with the answer for its first page.
firstPage(c, resp) ==
    LET next == getNextPageUrl(c.pages, c.nextUrl)
        list == mapLogins(c.pages[c.nextUrl])
    IN  CASE resp.status = 0   -> rejected(c, "TypeError")
          [] resp.status = 304 -> resolved(c, <<>>, TRUE)
          [] resp.status # 200 -> rejected(c, "Error")
          [] next = 0          -> resolved(c, list, FALSE)
          [] OTHER             -> [c EXCEPT !.list = list, !.nextUrl = next]

\* A faulty variant of nextPage: a page that is not answered with 200 ends
\* the loop, and the logins read so far are returned.
nextPagePartial(c, resp) ==
    LET next == getNextPageUrl(c.pages, c.nextUrl)
        nextData == c.pages[c.nextUrl]
        list == c.list \o mapLogins(nextData)
    IN  CASE resp.status # 200    -> resolved(c, c.list, FALSE)
          [] Len(nextData) = 0 -> resolved(c, c.list, FALSE)
          [] next = 0          -> resolved(c, list, FALSE)
          [] OTHER             -> [c EXCEPT !.list = list, !.nextUrl = next]

\* One turn of `while (nextUrl)`.
nextPage(c, resp) ==
    LET next == getNextPageUrl(c.pages, c.nextUrl)
        nextData == c.pages[c.nextUrl]
        list == c.list \o mapLogins(nextData)
    IN  CASE resp.status = 0   -> rejected(c, "TypeError")
          [] resp.status # 200 -> rejected(c, "Error")
          [] Len(nextData) = 0 -> resolved(c, c.list, FALSE)
          [] next = 0          -> resolved(c, list, FALSE)
          [] OTHER             -> [c EXCEPT !.list = list, !.nextUrl = next]

stargazersFetch(resp) ==
    /\ call.op = "stargazers"
    /\ call.phase = "fetch"
    /\ resp \in Responses(call.etag /\ call.attempts = 0)
    /\ LET c == [call EXCEPT !.attempts = @ + 1, !.last = resp]
       IN  call' = IF call.attempts = 0 THEN firstPage(c, resp) ELSE nextPage(c, resp)
    /\ UNCHANGED <<schedVars, syncVars, botVars, timeVars, delayVars>>

(***************************************************************************)
(* syncGuild's handling of the stargazers of one repository, with the      *)
(* client's call modelled request by request: guild g2 (stargazer role     *)
(* only) and its repository.                                               *)
(***************************************************************************)
PagedGuild == "g2"

PagedRepo == RepoB

\* The ETag GitHub sends with the list served in `pages`.
pagesEtag(pages) ==
    ETag(UNION {{pages[i][j] : j \in 1..Len(pages[i])} : i \in 1..Len(pages)})

\* syncGuild calls getRepositoryStargazers with the stored ETag, if any.
syncStargazersCall(pages) ==
    /\ callStargazers(pages, syncState[PagedRepo].stargazerEtag # NoEtag)

\* The await of getRepositoryStargazers in syncGuild settles.  Resolved: the
\* list (or the cache rows on notModified) goes into repoDataMap, the cache
\* table is rewritten and the sync state updated.  Rejected: the catch of the
\* repository loop records the error.
syncStargazersSettled ==
    /\ call.op = "stargazers"
    /\ call.phase \in {"resolved", "rejected"}
    /\ LET r == PagedRepo
           st0 == IF syncState[r].exists THEN syncState[r]
                  ELSE [NoState EXCEPT !.exists = TRUE]
           logins == {call.list[i] : i \in 1..Len(call.list)}
           res == [logins |-> logins,
                   etag |-> IF call.notModified THEN st0.stargazerEtag
                            ELSE pagesEtag(call.pages),
                   notModified |-> call.notModified, requested |-> TRUE]
           s == kindResult(res, dbCache[r].stargazer)
       IN  IF call.phase = "rejected"
           THEN /\ syncState' = [syncState EXCEPT ![r] = stateAfterError(st0)]
                /\ sg' = [sg EXCEPT !.repoDataMap[r] = NoData]
                /\ UNCHANGED <<dbCache, lastFetched>>
           ELSE /\ syncState' = [syncState EXCEPT ![r] =
                                   [exists |-> TRUE,
                                    contributorEtag |-> st0.contributorEtag,
                                    stargazerEtag |-> s.etag,
                                    lastSyncError |-> ""]]
                /\ dbCache' = [dbCache EXCEPT ![r].stargazer = s.cache]
                /\ sg' = [sg EXCEPT !.repoDataMap[r] =
                            [present |-> TRUE, contributors |-> {},
                             stargazers |-> s.logins]]
                /\ lastFetched' = [lastFetched EXCEPT ![r].stargazer =
                                     IF call.notModified THEN @ ELSE <<logins>>]
    /\ call' = CallIdle
    /\ UNCHANGED <<upstream, lru, guildEnv, memberRoles, history, pass, prevRun,
                   used, schedVars, botVars, timeVars, delayVars>>

(***************************************************************************)
(* The /follow-repository and /unfollow-repository commands (bot.ts).      *)
(* A guild's FollowedRepository rows are kept in creation order; a handler *)
(* of /follow-repository awaits between its steps, so several handlers run *)
(* interleaved.                                                            *)
(***************************************************************************)

\* How many /follow-repository handlers run at the same time.
MaxCommands == 2

BotGuilds == {"g1", "g2"}

\* What members type as owner and as name; all pass the format test
\* /^[a-zA-Z0-9_.-]+$/.
Owners == {"acme", "Acme"}

Names == {"a", "A", "b"}

NoCommand == [pc |-> "none", guild |-> "null", owner |-> "null",
              name |-> "null", reply |-> "none"]

NoRows == [g \in BotGuilds |-> [config |-> FALSE, rows |-> <<>>]]

\* prisma.followedRepository.findFirst / deleteMany: `equals` compares the
\* stored text with the given text as it is.
matches(row, owner, name) == row.owner = owner /\ row.name = name

existingRepo(rows, owner, name) ==
    \E i \in 1..Len(rows) : matches(rows[i], owner, name)

\* The row as /follow-repository would store it without lowering the text.
storedRowAsTyped(owner, name) == [owner |-> owner, name |-> name]

\* The data of prisma.followedRepository.create.
storedRow(owner, name) == [owner |-> toLowerCase(owner), name |-> toLowerCase(name)]

\* The unique index on (guildConfigId, owner, name) rejects a row that is
\* already there, letter for letter.
uniqueViolation(rows, row) == existingRepo(rows, row.owner, row.name)

\* followRepository up to the first await on the database: the options are
\* read and the guild's configuration is upserted.
followRepository(c, g, owner, name) ==
    /\ commands[c].pc = "none"
    /\ commands' = [commands EXCEPT ![c] =
                      [pc |-> "find", guild |-> g, owner |-> owner,
                       name |-> name, reply |-> "none"]]
    /\ followed' = [followed EXCEPT ![g].config = TRUE]
    /\ UNCHANGED <<schedVars, syncVars, clientVars, timeVars, delayVars>>

\* findFirst with the lowered owner and name; a row found ends the command.
followFind(c) ==
    LET cmd == commands[c]
    IN  /\ cmd.pc = "find"
        /\ commands' = [commands EXCEPT ![c] =
              IF existingRepo(followed[cmd.guild].rows,
                              toLowerCase(cmd.owner), toLowerCase(cmd.name))
              THEN [cmd EXCEPT !.pc = "done", !.reply = "already"]
              ELSE [cmd EXCEPT !.pc = "validate"]]
        /\ UNCHANGED <<followed, schedVars, syncVars, clientVars, timeVars, delayVars>>

\* The request to api.github.com/repos/owner/name: a response that is not
\* ok, or no response, ends the command.
followValidate(c, ok) ==
    LET cmd == commands[c]
    IN  /\ cmd.pc = "validate"
        /\ commands' = [commands EXCEPT ![c] =
              IF ok THEN [cmd EXCEPT !.pc = "create"]
              ELSE [cmd EXCEPT !.pc = "done", !.reply = "unverified"]]
        /\ UNCHANGED <<followed, schedVars, syncVars, clientVars, timeVars, delayVars>>

\* create: the database rejects the row when the unique index has it, and
\* the handler's catch replies with the failure.
followCreate(c) ==
    LET cmd == commands[c]
        row == storedRow(cmd.owner, cmd.name)
        rows == followed[cmd.guild].rows
    IN  /\ cmd.pc = "create"
        /\ IF uniqueViolation(rows, row)
           THEN /\ commands' = [commands EXCEPT ![c] =
                                  [cmd EXCEPT !.pc = "done", !.reply = "failed"]]
                /\ UNCHANGED followed
           ELSE /\ commands' = [commands EXCEPT ![c] =
                                  [cmd EXCEPT !.pc = "done", !.reply = "following"]]
                /\ followed' = [followed EXCEPT ![cmd.guild].rows = Append(@, row)]
        /\ UNCHANGED <<schedVars, syncVars, clientVars, timeVars, delayVars>>

\* The reply has been sent; the handler has returned.
followReturn(c) ==
    /\ commands[c].pc = "done"
    /\ commands' = [commands EXCEPT ![c] = NoCommand]
    /\ UNCHANGED <<followed, schedVars, syncVars, clientVars, timeVars, delayVars>>

\* unfollowRepository: without a configuration of the guild nothing is
\* deleted; otherwise deleteMany removes the rows equal to the lowered text.
unfollowRepository(g, owner, name) ==
    /\ followed[g].config
    /\ followed' = [followed EXCEPT ![g].rows =
          SelectSeq(@, LAMBDA row :
              ~matches(row, toLowerCase(owner), toLowerCase(name)))]
    /\ UNCHANGED <<commands, schedVars, syncVars, clientVars, timeVars, delayVars>>

\* No command has been given yet.
BotIdle ==
    /\ followed = NoRows
    /\ commands = [c \in 1..MaxCommands |-> NoCommand]

(***************************************************************************)
(* The reconciliation of one guild against the clock: passes in the        *)
(* scheduler's rhythm, the response cache of github-api.ts with its ttl,   *)
(* and lists that change on GitHub.  Time is counted in the ticks of the   *)
(* scheduler's constants; every fetch is answered.                         *)
(***************************************************************************)

\* How far the clock runs.
MaxClock == 14

\* How many times a list changes on GitHub.
MaxEdits == 1

\* ttl: 1000 * 60 * 60 of the LRUCache: one hour
CACHE_TTL == 12

TimedGuild == "g1"

ClockIdle ==
    [now |-> 0, phase |-> "idle", passAt |-> 0, queue |-> <<>>, passes |-> 0,
     edits |-> 0,
     \* when the response cache stored its entry of a repository
     setAt |-> [r \in Repos |-> 0],
     \* when a list last changed on GitHub (long ago at the start)
     changedAt |-> [r \in Repos |-> [k \in Kinds |-> 0 - CACHE_TTL]],
     \* the lists the last pass put into repoDataMap
     used |-> [r \in Repos |-> [k \in Kinds |-> {}]]]

\* lru-cache: an entry older than the ttl is not returned by cache.get.
entryExpired(r) == lru[r].hit /\ clock.now - clock.setAt[r] >= CACHE_TTL

\* Five minutes pass while no pass is running (a pass takes less).
clockTick ==
    /\ clock.phase # "running"
    /\ clock.now < MaxClock
    /\ clock' = [clock EXCEPT !.now = @ + 1]
    /\ UNCHANGED <<schedVars, syncVars, clientVars, botVars, delayVars>>

\* runSync calls syncAllGuilds: at once after start(), then SYNC_INTERVAL
\* after the pass before.
timedPassStart ==
    /\ clock.phase \in {"idle", "done"}
    /\ clock.passes = 0 \/ clock.now >= clock.passAt + SYNC_INTERVAL
    /\ clock' = [clock EXCEPT !.phase = "running", !.passAt = clock.now,
                              !.passes = 1,
                              !.queue = guildConfigs[TimedGuild].repositories]
    /\ UNCHANGED <<schedVars, syncVars, clientVars, botVars, delayVars>>

\* One iteration of syncGuild's repository loop with every request answered;
\* a 200 response to the contributors request is stored in the response
\* cache with the time of now.
timedFetchRepo ==
    /\ clock.phase = "running"
    /\ clock.queue # <<>>
    /\ LET r == Head(clock.queue)
           res == fetchRepo(guildConfigs[TimedGuild], r, FALSE, FALSE,
                            entryExpired(r))
       IN  /\ syncState' = [syncState EXCEPT ![r] = res.state]
           /\ dbCache' = [dbCache EXCEPT ![r] = res.cache]
           /\ lru' = [lru EXCEPT ![r] = res.entry]
           /\ lastFetched' = [lastFetched EXCEPT ![r] = res.fetched]
           /\ clock' = [clock EXCEPT
                          !.queue = Tail(@),
                          !.phase = IF Tail(clock.queue) = <<>> THEN "done"
                                    ELSE "running",
                          !.setAt[r] = IF res.fresh.contributor THEN clock.now
                                       ELSE @,
                          !.used[r] = [contributor |-> res.data.contributors,
                                       stargazer |-> res.data.stargazers]]
    /\ UNCHANGED <<upstream, guildEnv, memberRoles, history, sg, pass, prevRun,
                   used, schedVars, clientVars, botVars, delayVars>>

\* A repository's contributors or stargazers change on GitHub.
timedChange(r, kind, set) ==
    /\ clock.phase # "running"
    /\ clock.edits < MaxEdits
    /\ set # upstream[r][kind]
    /\ upstream' = [upstream EXCEPT ![r][kind] = set]
    /\ clock' = [clock EXCEPT !.edits = @ + 1, !.changedAt[r][kind] = clock.now]
    /\ UNCHANGED <<lru, syncState, dbCache, guildEnv, memberRoles, history, sg,
                   pass, lastFetched, prevRun, used, schedVars, clientVars,
                   botVars, delayVars>>

\* The reconciliation state while only the scheduler is being driven.
SyncIdle ==
    /\ SyncFresh
    /\ upstream = NoSets
    /\ guildEnv = [g \in Guilds |-> EnvOf("ok")]
    /\ memberRoles = [g \in Guilds |-> [d \in Members[g] |-> {}]]

\* The scheduler state while only the reconciliation is being driven.
SchedIdle ==
    /\ rev = "timeout"
    /\ ready = TRUE
    /\ timers = [h \in 1..MaxTimers |-> NoTimer]
    /\ syncTimer = 0
    /\ syncInterval = 0
    /\ isRunning = FALSE
    /\ sinceLast = SYNC_INTERVAL
    /\ inflight = [timer |-> 0, trigger |-> 0]
    /\ trigReturn = "none"
    /\ api = "never"

SyncInit ==
    /\ SyncFresh
    /\ upstream = UpstreamSeed
    /\ \E v \in EnvKinds :
         guildEnv = [g \in Guilds |-> IF g = "g1" THEN EnvOf(v) ELSE EnvOf("ok")]
    /\ memberRoles = RoleSeed
    /\ SchedIdle
    /\ call = CallIdle
    /\ BotIdle
    /\ clock = ClockIdle
    /\ waits = DelayIdle

SyncNext ==
    \/ \E fault \in BOOLEAN : syncAllGuildsStart(fault)
    \/ \E fault \in BOOLEAN : syncGuildStart(fault)
    \/ syncGuildCheck
    \/ \E failC, failS, expired \in BOOLEAN :
         syncGuildFetchRepo(failC, failS, expired)
    \/ \E fault \in {"none", "lookup", "contributor", "stargazer"} :
         syncGuildProcessUser(fault)
    \/ syncGuildComplete
    \/ syncAllGuildsEnd
    \/ \E r \in Repos, kind \in Kinds, set \in SUBSET Logins :
         upstreamChange(r, kind, set)

SyncSpec == SyncInit /\ [][SyncNext]_vars

SchedInit ==
    /\ rev \in {"timeout", "interval"}
    /\ ready \in BOOLEAN
    /\ timers = [h \in 1..MaxTimers |-> NoTimer]
    /\ syncTimer = 0
    /\ syncInterval = 0
    /\ isRunning = FALSE
    /\ sinceLast = SYNC_INTERVAL
    /\ inflight = [timer |-> 0, trigger |-> 0]
    /\ trigReturn = "none"
    /\ api = "never"
    /\ SyncIdle
    /\ call = CallIdle
    /\ BotIdle
    /\ clock = ClockIdle
    /\ waits = DelayIdle

SchedNext ==
    \/ startT
    \/ stopT
    \/ \E h \in 1..MaxTimers : fireT(h)
    \/ \E src \in {"timer", "trigger"}, threw \in BOOLEAN : passEndT(src, threw)
    \/ triggerSyncT
    \/ startI
    \/ stopI
    \/ \E h \in 1..MaxTimers : fireInitialI(h)
    \/ \E h \in 1..MaxTimers : fireIntervalI(h)
    \/ \E src \in {"timer", "trigger"}, threw \in BOOLEAN : passEndI(src, threw)
    \/ triggerSyncI
    \/ clientReady
    \/ Tick

SchedSpec == SchedInit /\ [][SchedNext]_vars

\* What the event loop and the reconciliation guarantee: time passes, a due
\* timer's callback runs, and a pass that was started ends.  Calls of start,
\* stop and triggerSync and the client becoming ready are up to the
\* environment.
SchedFairness ==
    /\ WF_vars(Tick)
    /\ WF_vars(\E h \in 1..MaxTimers : fireT(h))
    /\ WF_vars(\E h \in 1..MaxTimers : fireInitialI(h))
    /\ WF_vars(\E h \in 1..MaxTimers : fireIntervalI(h))
    /\ WF_vars(\E src \in {"timer", "trigger"}, threw \in BOOLEAN : passEndT(src, threw))
    /\ WF_vars(\E src \in {"timer", "trigger"}, threw \in BOOLEAN : passEndI(src, threw))

\* The model holds MaxTimers timers and MaxRuns passes.  A call from outside
\* is taken only while it leaves the callbacks of the scheduler room to run:
\* a due timer needs a free pass, an ending pass a free timer.
Room == Cardinality(Armed) + InFlight < MaxTimers + MaxRuns - 1

SchedLiveNext ==
    \/ Room /\ startT
    \/ Room /\ triggerSyncT
    \/ Room /\ startI
    \/ Room /\ triggerSyncI
    \/ stopT
    \/ stopI
    \/ clientReady
    \/ \E h \in 1..MaxTimers : fireT(h)
    \/ \E src \in {"timer", "trigger"}, threw \in BOOLEAN : passEndT(src, threw)
    \/ \E h \in 1..MaxTimers : fireInitialI(h)
    \/ \E h \in 1..MaxTimers : fireIntervalI(h)
    \/ \E src \in {"timer", "trigger"}, threw \in BOOLEAN : passEndI(src, threw)
    \/ Tick

SchedLiveSpec == SchedInit /\ [][SchedLiveNext]_vars /\ SchedFairness

\* throttledFetch never settles: GitHub sends no response, and fetch was
\* given no AbortSignal or timeout, so nothing in the client ends the await.
\* (A runtime that gives up on the connection by itself makes fetch reject
\* with a TypeError: that is the response with status 0.)
fetchUnanswered ==
    /\ call.phase = "fetch"
    /\ call' = [call EXCEPT !.phase = "pending", !.attempts = @ + 1]
    /\ UNCHANGED <<schedVars, syncVars, botVars, timeVars, delayVars>>

ClientInit ==
    /\ call = CallIdle
    /\ SchedIdle
    /\ SyncIdle
    /\ BotIdle
    /\ clock = ClockIdle
    /\ waits = DelayIdle

ClientNext ==
    \/ \E pages \in PageChains, etag \in BOOLEAN, cached \in {<<>>} \cup {<<p>> : p \in Pages} :
         callContributors(pages, etag, cached)
    \/ \E resp \in Responses(TRUE), jitter \in Jitter : requestFetch(resp, jitter)
    \/ requestRetry
    \/ \E pages \in PageChains, etag \in BOOLEAN : callStargazers(pages, etag)
    \/ \E resp \in Responses(TRUE) : stargazersFetch(resp)
    \/ fetchUnanswered

ClientSpec == ClientInit /\ [][ClientNext]_vars

\* The event loop runs every continuation that is ready: a step of the client
\* that can be taken is eventually taken.
ClientLiveSpec == ClientSpec /\ WF_vars(ClientNext)

BotInit ==
    /\ BotIdle
    /\ clock = ClockIdle
    /\ waits = DelayIdle
    /\ SchedIdle
    /\ SyncIdle
    /\ call = CallIdle

BotNext ==
    \/ \E c \in 1..MaxCommands, g \in BotGuilds, owner \in Owners, name \in Names :
         followRepository(c, g, owner, name)
    \/ \E c \in 1..MaxCommands : followFind(c)
    \/ \E c \in 1..MaxCommands, ok \in BOOLEAN : followValidate(c, ok)
    \/ \E c \in 1..MaxCommands : followCreate(c)
    \/ \E c \in 1..MaxCommands : followReturn(c)
    \/ \E g \in BotGuilds, owner \in Owners, name \in Names :
         unfollowRepository(g, owner, name)

BotSpec == BotInit /\ [][BotNext]_vars

TimedInit ==
    /\ SyncFresh
    /\ upstream = UpstreamSeed
    /\ guildEnv = [g \in Guilds |-> EnvOf("ok")]
    /\ memberRoles = RoleSeed
    /\ SchedIdle
    /\ call = CallIdle
    /\ BotIdle
    /\ clock = ClockIdle
    /\ waits = DelayIdle

TimedNext ==
    \/ clockTick
    \/ timedPassStart
    \/ timedFetchRepo
    \/ \E r \in Repos, kind \in Kinds, set \in SUBSET Logins :
         timedChange(r, kind, set)

TimedSpec == TimedInit /\ [][TimedNext]_vars

PagedInit ==
    /\ SyncIdle
    /\ SchedIdle
    /\ call = CallIdle
    /\ BotIdle
    /\ clock = ClockIdle
    /\ waits = DelayIdle

PagedNext ==
    \/ \E pages \in PageChains : syncStargazersCall(pages)
    \/ \E resp \in Responses(TRUE) : stargazersFetch(resp)
    \/ syncStargazersSettled

PagedSpec == PagedInit /\ [][PagedNext]_vars

DelayInit ==
    /\ SyncIdle
    /\ SchedIdle
    /\ call = CallIdle
    /\ BotIdle
    /\ clock = ClockIdle
    /\ waits \in DelayInputs

DelayNext ==
    \/ delayBackoff
    \/ delayRateLimit

DelaySpec == DelayInit /\ [][DelayNext]_vars

(***************************************************************************)
(* Claims about the reconciliation, checked under SyncSpec.                *)
(***************************************************************************)

\* The Discord ids of the fully linked users that are members of guild g,
\* each with the user's GitHub login.
LinkedMembers(g) ==
    {<<linkedUsers[i].discordAccount, linkedUsers[i].gitHubAccount>> :
        i \in {j \in 1..Len(linkedUsers) :
                 linkedUsers[j].discordAccount \in Members[g]}}

\* The role kinds guild g has configured and that exist as roles in it.
ManagedKinds(g) ==
    {k \in Kinds : roleIdOf(guildConfigs[g], k) # "null" /\ k \in guildEnv[g].roles}

KindSet(data, kind) ==
    IF kind = "contributor" THEN data.contributors ELSE data.stargazers

\* The login is, ignoring case, in the kind's list on GitHub of a repository
\* guild g follows.
OnGitHub(g, kind, login) ==
    \E r \in reposOf(g) :
        toLowerCase(login) \in {toLowerCase(x) : x \in upstream[r][kind]}

\* The running syncGuild call has returned after finalizing its record as
\* successful.
AttemptCompleted ==
    /\ sg.phase = "done"
    /\ history[sg.hist].completed
    /\ history[sg.hist].success

\* In the attempt every list was answered by GitHub (200 or 304), no Discord
\* call was rejected, and the lists did not change while it ran.
AttemptClean ==
    /\ AttemptCompleted
    /\ sg.failedRepos = {}
    /\ ~sg.discordFault
    /\ ~sg.lruHit
    /\ sg.stable

\* C1: after a syncGuild attempt in which every GitHub fetch and every
\* Discord call succeeded, every fully linked member of the guild holds each
\* configured role exactly when the login is in that kind's list of at least
\* one followed repository.
C1_RolesMatchMembership ==
    AttemptClean =>
        \A m \in LinkedMembers(sg.guild), k \in ManagedKinds(sg.guild) :
            (k \in memberRoles[sg.guild][m[1]]) <=> OnGitHub(sg.guild, k, m[2])

\* C2: a syncGuild attempt that follows a clean attempt for the same guild
\* with no change on GitHub in between, and is clean itself, changes no role:
\* it records rolesAdded = 0 and rolesRemoved = 0 and no error.
C2_SecondRunChangesNothing ==
    (AttemptClean /\ sg.repeat) =>
        /\ history[sg.hist].rolesAdded = 0
        /\ history[sg.hist].rolesRemoved = 0
        /\ history[sg.hist].errorMessage = ""
        /\ sg.calls = 0

\* C3: when a fetch answered notModified, the membership used for that
\* repository and kind is the cached set, and it is empty only if the last
\* list GitHub returned for it was empty.
C3_NotModifiedUsesCache ==
    \A r \in Repos, k \in Kinds :
        sg.how[r][k] = "cached" =>
            /\ KindSet(sg.repoDataMap[r], k) = dbCache[r][k]
            /\ KindSet(sg.repoDataMap[r], k) = {} => lastFetched[r][k] = <<{}>>

C3_Witness ==
    \E r \in Repos, k \in Kinds :
        /\ sg.how[r][k] = "cached"
        /\ KindSet(sg.repoDataMap[r], k) # {}
        /\ sg.phase = "done"

\* A fully linked member of the guild of the attempt whose login is in the
\* list of kind k that the attempt holds for RepoB, with the kind managed.
InListOfB(m, k) ==
    /\ m \in LinkedMembers(sg.guild)
    /\ k \in ManagedKinds(sg.guild)
    /\ toLowerCase(m[2]) \in KindSet(sg.repoDataMap[RepoB], k)

\* The attempt completed with the fetch of RepoA failed and that of RepoB not.
FailedAOnly ==
    /\ AttemptCompleted
    /\ RepoA \in sg.failedRepos
    /\ RepoB \in reposOf(sg.guild)
    /\ RepoB \notin sg.failedRepos

\* C4: when the fetch of repository A fails in a guild's attempt, repository
\* B is still fetched and a member whose login is in B's list gets or keeps
\* the role; and the failing fetch of A touches nothing that the attempt of a
\* guild following only B reads or writes: B's sync state, cache and cached
\* response, the members' roles, the history and the pass.
C4_FetchFailureIsContained ==
    /\ [](FailedAOnly =>
            /\ sg.repoDataMap[RepoB].present
            /\ ~sg.discordFault =>
                 \A m \in LinkedMembers(sg.guild), k \in Kinds :
                     InListOfB(m, k) => k \in memberRoles[sg.guild][m[1]])
    /\ [][(RepoA \in sg'.failedRepos /\ RepoA \notin sg.failedRepos) =>
            /\ syncState'[RepoB] = syncState[RepoB]
            /\ dbCache'[RepoB] = dbCache[RepoB]
            /\ lru'[RepoB] = lru[RepoB]
            /\ sg'.repos = Tail(sg.repos)
            /\ pass'.queue = pass.queue
            /\ pass'.invoked = pass.invoked
            /\ pass'.threw = pass.threw
            /\ UNCHANGED <<memberRoles, guildEnv, history>>]_vars

C4_Witness ==
    /\ FailedAOnly
    /\ history[sg.hist].rolesAdded > 0
    /\ \E m \in LinkedMembers(sg.guild), k \in Kinds :
         /\ InListOfB(m, k)
         /\ k \notin RoleSeed[sg.guild][m[1]]
         /\ k \in memberRoles[sg.guild][m[1]]

\* The bot's highest role is at or below a role the guild has configured.
BotBelowRole(g, k) ==
    /\ guildEnv[g].found
    /\ guildEnv[g].manageRoles
    /\ k \in ManagedKinds(g)
    /\ discordRefuses(guildEnv[g], k)

C6_PreconditionFailure ==
    (sg.phase = "done"
       /\ (~guildEnv[sg.guild].found \/ ~guildEnv[sg.guild].manageRoles)) =>
        /\ history[sg.hist].completed
        /\ ~history[sg.hist].success
        /\ history[sg.hist].errorMessage # ""
        /\ history[sg.hist].totalProcessed = 0
        /\ history[sg.hist].rolesAdded = 0
        /\ history[sg.hist].rolesRemoved = 0
        /\ sg.requests = 0
        /\ sg.calls = 0
        /\ memberRoles[sg.guild] = RoleSeed[sg.guild]

C6_Witness ==
    /\ sg.phase = "done"
    /\ ~guildEnv[sg.guild].manageRoles
    /\ history[sg.hist].guildConfigId = sg.guild
    /\ history[sg.hist].completed

\* The guild configurations a pass is to reconcile.
EligibleGuilds == {g \in Guilds : eligible(guildConfigs[g])}

\* C7: in every pass whose findMany succeeded, each eligible guild gets its
\* syncGuild call whatever happened to the guilds before it, and
\* syncAllGuilds does not throw.
C7_GuildsAreIsolated ==
    (pass.phase = "done" /\ ~pass.findFailed) =>
        /\ pass.invoked = EligibleGuilds
        /\ ~pass.threw

\* A pass in which the syncGuild call for g1 threw and g2 was reconciled.
C7_Witness ==
    /\ pass.phase = "done"
    /\ used.passes = 1
    /\ used.faults = 1
    /\ pass.invoked = {"g1", "g2"}
    /\ Len(history) = 1
    /\ history[1].guildConfigId = "g2"
    /\ history[1].success

\* C15: logins are compared ignoring case.  Every login the attempt holds
\* or has cached is lowercase, and after a completed attempt without a
\* rejected Discord call a fully linked member whose lowercased login is in a
\* followed repository's list of a managed kind holds that role, whatever the
\* case of the stored username.
C15_CaseInsensitiveMatch ==
    /\ \A r \in Repos, k \in Kinds :
         \A x \in KindSet(sg.repoDataMap[r], k) \cup dbCache[r][k] :
             toLowerCase(x) = x
    /\ (AttemptCompleted /\ ~sg.discordFault) =>
         \A m \in LinkedMembers(sg.guild), k \in ManagedKinds(sg.guild) :
             (\E r \in reposOf(sg.guild) :
                  /\ sg.repoDataMap[r].present
                  /\ toLowerCase(m[2]) \in KindSet(sg.repoDataMap[r], k))
               => k \in memberRoles[sg.guild][m[1]]

\* "Alice", stored in mixed case and without the role, is granted it from a
\* list holding "alice", and the attempt records rolesAdded = 1.
C15_Witness ==
    /\ AttemptCompleted
    /\ sg.guild = "g2"
    /\ <<"d1", "Alice">> \in LinkedMembers("g2")
    /\ "alice" \in sg.repoDataMap[RepoB].stargazers
    /\ "Alice" \notin sg.repoDataMap[RepoB].stargazers
    /\ "stargazer" \notin RoleSeed["g2"]["d1"]
    /\ "stargazer" \in memberRoles["g2"]["d1"]
    /\ history[sg.hist].rolesAdded = 1

\* C19: within one pass at most one HTTP fetch is issued for each repository
\* and kind, however many guilds follow the repository.
C19_OneFetchPerPass ==
    \A r \in Repos, k \in Kinds : pass.fetches[r][k] <= 1

\* C20: a repository whose fetch threw has the error stored in its sync
\* state and contributes no membership to the attempt; the attempt still
\* goes through every repository and every user and is finalized with
\* success = true; a repository fetched successfully has no stored error.
C20_RepositoryErrorIsRecorded ==
    /\ \A r \in sg.failedRepos :
         /\ syncState[r].exists
         /\ syncState[r].lastSyncError # ""
         /\ ~sg.repoDataMap[r].present
    /\ \A r \in Repos :
         sg.repoDataMap[r].present => syncState[r].lastSyncError = ""
    /\ (sg.failedRepos # {} /\ sg.phase = "done") =>
         /\ sg.repos = <<>>
         /\ sg.users = <<>>
         /\ history[sg.hist].completed
         /\ history[sg.hist].success
         /\ history[sg.hist].errorMessage = ""

\* An attempt completed after the fetch of RepoA threw, having fetched RepoB
\* and processed both of its users.
C20_Witness ==
    /\ sg.phase = "done"
    /\ RepoA \in sg.failedRepos
    /\ sg.repoDataMap[RepoB].present
    /\ history[sg.hist].success
    /\ history[sg.hist].totalProcessed = 2

(***************************************************************************)
(* Claims about the Scheduler, checked under SchedSpec.                    *)
(***************************************************************************)

\* C8: at no time are two reconciliation passes (runSync calls awaiting
\* syncAllGuilds) in progress at once.
C8_NoOverlappingPasses == InFlight <= 1

\* C9: start() on a scheduler that was started and not stopped since is a
\* no-op: it arms no timer and changes nothing the scheduler holds.
C9_StartIsIdempotent ==
    [][(api = "started" /\ (startT \/ startI))
         => UNCHANGED <<timers, syncTimer, syncInterval, isRunning, inflight>>]_vars

\* C10: from the return of stop() until the next start(), no timer is
\* pending and no new pass begins.
C10_StopQuiesces ==
    /\ [](api = "stopped" => Armed = {})
    /\ [][(api = "stopped" /\ api' = "stopped") => InFlight' <= InFlight]_vars

\* C11: triggerSync() on a scheduler that was never started returns false,
\* and a triggerSync() whose pass threw does not return true.
C11_TriggerReportsOutcome ==
    /\ [][(api = "never" /\ (triggerSyncT \/ triggerSyncI))
            => trigReturn' = "false"]_vars
    /\ [][(passEndT("trigger", TRUE) \/ passEndI("trigger", TRUE))
            => trigReturn' # "true"]_vars

\* C12: in the revision that schedules the next pass when one ends, the
\* timer armed after a pass that completed is due one sync interval later,
\* and the timer armed after a pass that threw is due strictly sooner.
C12_RetryIsSooner ==
    [][\A src \in {"timer", "trigger"} :
          /\ passEndT(src, FALSE) => timers'[syncTimer'].left = SYNC_INTERVAL
          /\ passEndT(src, TRUE) => timers'[syncTimer'].left < SYNC_INTERVAL]_vars

(***************************************************************************)
(* Claims about the GitHub client, checked under ClientSpec.               *)
(***************************************************************************)

\* C16: one request() call issues at most maxRetries + 1 = 4 HTTP attempts
\* whatever mix of 403/429 and network errors it meets (a retry adds one
\* attempt, never more), it only resolves on a 200, a 304 or a cache hit,
\* and once the last allowed attempt has been answered with a failure it
\* rejects with an error.
C16_RetriesAreBounded ==
    call.op = "contributors" =>
        /\ call.attempts <= maxRetries + 1
        /\ call.attempts <= call.retryCount + 1
        /\ call.phase = "resolved" =>
             call.attempts = 0 \/ call.last.status \in {200, 304}
        /\ (call.attempts = maxRetries + 1 /\ call.phase # "pending"
              /\ call.last.status \notin {200, 304}) =>
             call.phase = "rejected"
        /\ call.phase = "rejected" => call.error \in {"Error", "TypeError"}

\* The fourth attempt of a call was rate-limited too and the call rejected.
C16_Witness ==
    /\ call.op = "contributors"
    /\ call.phase = "rejected"
    /\ call.attempts = maxRetries + 1
    /\ call.retryCount = maxRetries
    /\ isPrimary(call.last)
    /\ call.error = "Error"

\* The logins a sequence holds.
Range(list) == {list[i] : i \in 1..Len(list)}

\* Every login of every page of the chain GitHub serves, lowercased.
AllPagesLowered(pages) ==
    UNION {Range(mapLogins(pages[i])) : i \in 1..Len(pages)}

\* C13: a getRepositoryStargazers call that returns a list returns the
\* logins of all the pages of the chain, lowercased, each login once.  (That
\* the call ends for every finite chain is not in doubt: nextUrl only moves
\* forward along the chain.)
C13_StargazersUnionOnce ==
    (call.op = "stargazers" /\ call.phase = "resolved" /\ ~call.notModified) =>
        /\ Range(call.list) = AllPagesLowered(call.pages)
        /\ Cardinality(Range(call.list)) = Len(call.list)

\* C14: a getRepositoryContributors call that fetched the list returns the
\* logins of all the pages of the chain, not only those of the first page.
C14_ContributorsAllPages ==
    (call.op = "contributors" /\ call.phase = "resolved" /\ ~call.notModified
        /\ call.attempts > 0) =>
        Range(call.list) = AllPagesLowered(call.pages)

\* C17: in both fetch operations, a 403/429 answer that carries either
\* x-ratelimit-remaining = 0 with a reset time, or Retry-After, while retries
\* remain, is not a failure: the call sleeps until the reset plus the buffer,
\* or for Retry-After seconds, and will then retry.
C17_RateLimitIsWaitedOut ==
    [][\A resp \in RateLimitResponses, jitter \in Jitter :
          ( /\ requestFetch(resp, jitter) \/ stargazersFetch(resp)
            /\ mayRetry(call.retryCount)
            /\ isPrimary(resp) \/ isSecondary(resp) )
          => /\ call'.phase = "sleep"
             /\ isPrimary(resp) => call'.slept = Max(0, resp.reset[1]) + RESET_BUFFER
             /\ isSecondary(resp) => call'.slept = resp.retryAfter[1] * 1000]_vars

(***************************************************************************)
(* Further claims about the reconciliation, checked under SyncSpec.        *)
(***************************************************************************)

\* The user the loop of the running attempt is about to process.
NextUser == Head(sg.users)

\* C21: a rejected member lookup or role add/remove call while one linked
\* user is processed does not abort the attempt.  The iteration only drops
\* that user from the loop; a later user that is a member is still counted
\* and has its roles decided, and the attempt is finalized as successful
\* with the loop exhausted.
C21_UserFailureIsContained ==
    /\ [][\A fault \in {"none", "lookup", "contributor", "stargazer"} :
            (syncGuildProcessUser(fault) /\ sg'.discordFault) =>
              /\ sg'.users = Tail(sg.users)
              /\ sg'.phase = IF Tail(sg.users) = <<>> THEN "final" ELSE "users"
              /\ UNCHANGED <<history, pass>>]_vars
    /\ [][(syncGuildProcessUser("none") /\ sg.discordFault
             /\ NextUser.discordAccount \in Members[sg.guild]) =>
            /\ sg'.totalProcessed = sg.totalProcessed + 1
            /\ \A k \in ManagedKinds(sg.guild) :
                 ~discordRefuses(guildEnv[sg.guild], k) =>
                   (k \in memberRoles'[sg.guild][NextUser.discordAccount]
                      <=> isMemberOfAny(guildConfigs[sg.guild], k,
                                        NextUser.gitHubAccount, sg.repoDataMap))]_vars
    /\ []((sg.phase = "done" /\ sg.discordFault) =>
            /\ sg.users = <<>>
            /\ history[sg.hist].completed
            /\ history[sg.hist].success
            /\ history[sg.hist].errorMessage = "")

\* In g1 the lookup of the first user was rejected; the second user was still
\* processed (bob lost the contributor role he is not entitled to) and the
\* attempt completed.
C21_Witness ==
    /\ AttemptCompleted
    /\ sg.guild = "g1"
    /\ used.faults = 1
    /\ sg.discordFault
    /\ sg.failedRepos = {}
    /\ memberRoles["g1"]["d1"] = {}
    /\ sg.repoDataMap[RepoA].contributors = {"alice"}
    /\ history[sg.hist].totalProcessed = 1
    /\ history[sg.hist].rolesRemoved = 1

\* C22: a syncGuild invocation creates one history record when it starts,
\* not yet completed (an invocation whose create is rejected throws at once
\* and has written nothing); nothing else creates records.  When the
\* invocation has ended its record is completed and carries the attempt's
\* final counts, with an error message whenever success is false; the only
\* record that can be uncompleted is that of the attempt still running, and
\* a completed record is never changed again.
C22_HistoryIsFinalized ==
    /\ [][\A fault \in BOOLEAN : syncGuildStart(fault) =>
            IF fault THEN history' = history
            ELSE /\ Len(history') = Len(history) + 1
                 /\ SubSeq(history', 1, Len(history)) = history
                 /\ ~history'[Len(history')].completed
                 /\ history'[Len(history')].guildConfigId = Head(pass.queue)]_vars
    /\ [][(\A fault \in BOOLEAN : ~syncGuildStart(fault)) =>
            Len(history') = Len(history)]_vars
    /\ [][\A i \in 1..Len(history) :
            history[i].completed => history'[i] = history[i]]_vars
    /\ [](sg.phase = "done" =>
            /\ history[sg.hist].completed
            /\ history[sg.hist].totalProcessed = sg.totalProcessed
            /\ history[sg.hist].rolesAdded = sg.rolesAdded
            /\ history[sg.hist].rolesRemoved = sg.rolesRemoved)
    /\ [](\A i \in 1..Len(history) :
            /\ ~history[i].completed => (i = sg.hist /\ sg.phase \notin {"idle", "done"})
            /\ (history[i].completed /\ ~history[i].success) =>
                 history[i].errorMessage # "")

\* One attempt ended Failed and a later one Completed with a role granted.
C22_Witness ==
    /\ sg.phase = "done"
    /\ Len(history) = 2
    /\ history[1].completed /\ ~history[1].success
    /\ history[1].errorMessage # ""
    /\ history[2].completed /\ history[2].success
    /\ history[2].totalProcessed = 1
    /\ history[2].rolesAdded = 1

\* The Discord ids of the users that have only one of the two accounts.
HalfLinked ==
    {users[i].discordAccount :
        i \in {j \in 1..Len(users) : \/ users[j].discordAccount = "null"
                                      \/ users[j].gitHubAccount = "null"}}

\* C23: a user with only a GitHub account or only a Discord account is
\* inert.  No attempt looks such a user up in the guild, the roles a member
\* without a GitHub account holds are never changed, and only fully linked
\* members are counted in totalProcessed.
C23_HalfLinkedIsInert ==
    /\ sg.lookedUp \cap HalfLinked = {}
    /\ \A g \in Guilds : \A d \in Members[g] \cap HalfLinked :
         memberRoles[g][d] = RoleSeed[g][d]
    /\ sg.phase # "idle" =>
         sg.totalProcessed <= Cardinality(LinkedMembers(sg.guild))

\* An attempt in g1 looked up and counted d1 and d2 and changed a role, while
\* d3, a member without GitHub account, keeps a stargazer role no list backs.
C23_Witness ==
    /\ AttemptCompleted
    /\ sg.guild = "g1"
    /\ "d3" \in HalfLinked
    /\ sg.lookedUp = {"d1", "d2"}
    /\ history[sg.hist].totalProcessed = 2
    /\ history[sg.hist].rolesRemoved > 0
    /\ "stargazer" \in ManagedKinds("g1")
    /\ memberRoles["g1"]["d3"] = {"stargazer"}

\* The guilds with no role kind configured or with no followed repository.
Unconfigured ==
    {g \in Guilds :
        \/ /\ guildConfigs[g].contributorRoleId = "null"
           /\ guildConfigs[g].stargazerRoleId = "null"
        \/ Len(guildConfigs[g].repositories) = 0}

\* C24: a pass calls syncGuild exactly for the guilds with a role kind
\* configured and a followed repository.  A guild with no role or no
\* repository is never the guild of an attempt (so no GitHub fetch is made
\* for it), has no history record, and its members' roles are never changed.
C24_OnlyConfiguredGuilds ==
    /\ pass.invoked \cap Unconfigured = {}
    /\ (pass.phase = "done" /\ ~pass.findFailed) =>
         pass.invoked = Guilds \ Unconfigured
    /\ sg.guild \notin Unconfigured
    /\ \A i \in 1..Len(history) : history[i].guildConfigId \notin Unconfigured
    /\ \A g \in Unconfigured : memberRoles[g] = RoleSeed[g]

\* A pass reconciled g1 and g2, changing roles in g1, and passed over g3
\* (no role configured) and g4 (no repository followed).
C24_Witness ==
    /\ pass.phase = "done"
    /\ Unconfigured = {"g3", "g4"}
    /\ pass.invoked = {"g1", "g2"}
    /\ Len(history) = 2
    /\ history[1].guildConfigId = "g1" /\ history[1].success
    /\ history[2].guildConfigId = "g2" /\ history[2].success
    /\ memberRoles["g1"] # RoleSeed["g1"]

(***************************************************************************)
(* Further claims about the GitHub client.                                 *)
(***************************************************************************)

\* C25: every GitHub call the client has begun settles, resolved or
\* rejected, also when GitHub stops answering: a fetch that gets no response
\* is given up after a bounded time.  Checked under ClientLiveSpec.
C25_EveryCallSettles ==
    (call.phase = "fetch") ~> (call.phase \in {"resolved", "rejected"})

(***************************************************************************)
(* Further claims about the scheduler.                                     *)
(***************************************************************************)

\* A runSync call begins awaiting syncAllGuilds.
PassStarts == InFlight' > InFlight

\* C26: if from some point on start() is the last of start()/stop() to have
\* been called and the Discord client is ready, then passes keep being
\* started for ever: whatever pass has finished, another one starts later.
\* Checked under SchedLiveSpec, in which every pass ends.
C26_PassesKeepOccurring ==
    <>[](api = "started" /\ ready) => []<><<PassStarts>>_vars

\* The scheduler is started, no pass is running, the last pass has just ended
\* with an error and its retry is the timer the scheduler holds.
C26_Witness ==
    /\ rev = "timeout"
    /\ api = "started"
    /\ ready
    /\ InFlight = 0
    /\ syncTimer # 0
    /\ timers[syncTimer] = [kind |-> "timeout", left |-> SYNC_ERROR_RETRY]


(***************************************************************************)
(* Claims about the bot's commands                                         *)
(***************************************************************************)

\* Two repositories are the same when owner and name are equal ignoring
\* letter case.
sameIgnoringCase(a, b) ==
    /\ toLowerCase(a.owner) = toLowerCase(b.owner)
    /\ toLowerCase(a.name) = toLowerCase(b.name)

NoCaseDuplicates ==
    \A g \in BotGuilds :
        \A i, j \in 1..Len(followed[g].rows) :
            sameIgnoringCase(followed[g].rows[i], followed[g].rows[j]) => i = j

\* C27: whatever /follow-repository and /unfollow-repository commands have
\* run, also interleaved, no guild has two followed repositories equal
\* ignoring letter case; the create of a /follow-repository for a repository
\* the guild already follows under some letter case adds no entry; and after
\* /unfollow-repository no entry of the guild equals the given repository
\* ignoring letter case.
C27_FollowedIgnoresCase ==
    /\ []NoCaseDuplicates
    /\ [][\A c \in 1..MaxCommands :
            (/\ followCreate(c)
             /\ \E i \in 1..Len(followed[commands[c].guild].rows) :
                  sameIgnoringCase(followed[commands[c].guild].rows[i], commands[c]))
            => followed' = followed]_vars
    /\ [][\A g \in BotGuilds, owner \in Owners, name \in Names :
            unfollowRepository(g, owner, name)
            => \A i \in 1..Len(followed'[g].rows) :
                 ~sameIgnoringCase(followed'[g].rows[i],
                                   [owner |-> owner, name |-> name])]_vars

\* Two handlers ran interleaved for the same repository typed in different
\* letter case: one stored the row and the unique index rejected the other's.
C27_Witness ==
    /\ commands[1].reply = "following"
    /\ commands[2].reply = "failed"
    /\ commands[1].guild = commands[2].guild
    /\ commands[1].owner # commands[2].owner
    /\ Len(followed[commands[1].guild].rows) = 1

(***************************************************************************)
(* Claims about the membership cache                                       *)
(***************************************************************************)

\* C28: when an iteration of the repository loop got a repository's
\* contributors (stargazers) from GitHub in a response that was not a 304,
\* the cache table of that repository and kind holds, after the iteration,
\* exactly the fetched logins, also when there are none.
C28_CacheEqualsFetched ==
    [][\A failC, failS, expired \in BOOLEAN :
         syncGuildFetchRepo(failC, failS, expired)
         => LET r == Head(sg.repos)
                res == fetchRepo(guildConfigs[sg.guild], r, failC, failS, expired)
            IN  \A kind \in Kinds :
                  res.fresh[kind] => dbCache'[r][kind] = res.fetched[kind][1]]_vars

\* The ETag the sync state of repository r holds for a kind.
storedEtag(r, kind) ==
    IF kind = "contributor" THEN syncState[r].contributorEtag
    ELSE syncState[r].stargazerEtag

\* C29: whenever the sync state of a repository holds an ETag for a kind, the
\* cache table of that repository and kind holds the logins of the list that
\* GitHub sent with that ETag.
C29_EtagValidatesCache ==
    \A r \in Repos, kind \in Kinds :
        storedEtag(r, kind) # NoEtag
        => dbCache[r][kind] = {toLowerCase(x) : x \in storedEtag(r, kind)[1]}

(***************************************************************************)
(* Claims about the order of an attempt                                    *)
(***************************************************************************)

\* The place of a phase of syncGuild in the attempt: the record is created
\* ("check" follows), repositories are fetched, users are processed, the
\* record is finalized ("done").
PhaseRank(phase) ==
    CASE phase = "idle"  -> 0
      [] phase = "check" -> 1
      [] phase = "fetch" -> 2
      [] phase = "users" -> 3
      [] phase = "final" -> 4
      [] phase = "done"  -> 5

AttemptRunning == sg.phase \in {"check", "fetch", "users", "final"}

\* C30: an attempt of syncGuild goes through its phases in order and never
\* back.  While it runs its history record exists and is not finalized; a
\* GitHub request is made only in the fetch phase, before any member was
\* looked up or any role call made, and each iteration of the repository loop
\* consumes its repository (nothing is fetched again); roles change only in
\* the user phase, when no repository is left to fetch; and once the record
\* is finalized the attempt writes nothing more.
C30_PhasesInOrder ==
    /\ [](AttemptRunning
          => sg.hist \in 1..Len(history) /\ ~history[sg.hist].completed)
    /\ [](sg.phase = "done" => history[sg.hist].completed)
    /\ [][sg'.phase # sg.phase
          => sg.phase = "done" \/ PhaseRank(sg.phase) < PhaseRank(sg'.phase)]_vars
    /\ [][\A failC, failS, expired \in BOOLEAN :
            syncGuildFetchRepo(failC, failS, expired)
            => Len(sg'.repos) < Len(sg.repos)]_vars
    /\ [][sg'.requests > sg.requests
          => sg.phase = "fetch" /\ sg.lookedUp = {} /\ sg.calls = 0]_vars
    /\ [][memberRoles' # memberRoles \/ sg'.calls > sg.calls
          => sg.phase = "users" /\ sg.repos = <<>>]_vars
    /\ [][sg.phase = "done" /\ sg'.phase = "done"
          => UNCHANGED <<history, memberRoles, dbCache, syncState>>]_vars

\* An attempt that went through every phase: a repository's fetch failed and
\* requests were made, role calls were made, and the record is finalized.
C30_Witness ==
    /\ sg.phase = "done"
    /\ sg.failedRepos # {}
    /\ sg.requests > 0
    /\ sg.calls > 0
    /\ history[sg.hist].completed
    /\ history[sg.hist].success

(***************************************************************************)
(* Claims about what an attempt touches                                    *)
(***************************************************************************)

\* The ETag stored for a kind in a sync state record.
etagOf(st, kind) ==
    IF kind = "contributor" THEN st.contributorEtag ELSE st.stargazerEtag

\* C31: an iteration of the repository loop sends no request for a kind the
\* guild has no role for, and leaves the ETag stored for that kind as it was.
C31_OnlyConfiguredKinds ==
    [][\A failC, failS, expired \in BOOLEAN :
         syncGuildFetchRepo(failC, failS, expired)
         => \A kind \in Kinds :
              roleIdOf(guildConfigs[sg.guild], kind) = "null"
              => /\ pass'.fetches[Head(sg.repos)][kind]
                      = pass.fetches[Head(sg.repos)][kind]
                 /\ etagOf(syncState'[Head(sg.repos)], kind)
                      = etagOf(syncState[Head(sg.repos)], kind)]_vars

\* A guild without a contributor role has fetched the stargazers of a
\* repository whose contributors another guild fetched before: the
\* contributor ETag is still the one that guild stored.
C31_Witness ==
    /\ sg.guild = "g2"
    /\ sg.phase = "users"
    /\ sg.how[RepoB]["stargazer"] = "fresh"
    /\ pass.fetches[RepoB]["stargazer"] >= 2
    /\ pass.fetches[RepoB]["contributor"] = 1
    /\ syncState[RepoB].contributorEtag # NoEtag

\* C32: a grant is issued only for a member who does not hold the role, a
\* revoke only for a member who holds it, and an attempt issues at most one
\* role call per member and kind (every call counted is a distinct member
\* and kind, and none is both granted and revoked).
C32_CheckBeforeMutate ==
    /\ [][\A fault \in {"none", "lookup", "contributor", "stargazer"} :
            syncGuildProcessUser(fault)
            => \A kind \in Kinds :
                 LET d == NextUser.discordAccount IN
                 /\ <<d, kind>> \in sg'.adds \ sg.adds
                      => kind \notin memberRoles[sg.guild][d]
                 /\ <<d, kind>> \in sg'.removes \ sg.removes
                      => kind \in memberRoles[sg.guild][d]]_vars
    /\ [](/\ sg.calls = Cardinality(sg.adds) + Cardinality(sg.removes)
          /\ sg.adds \cap sg.removes = {})

\* An attempt granted a role, revoked a role, and left a role alone that a
\* looked-up member held already.
C32_Witness ==
    /\ sg.phase = "final"
    /\ sg.adds # {}
    /\ sg.removes # {}
    /\ \E d \in sg.lookedUp \cap Members[sg.guild], kind \in Kinds :
         /\ kind \in memberRoles[sg.guild][d]
         /\ <<d, kind>> \notin sg.adds

\* C33: a finalized history record is never modified or removed; the only
\* write to a record after its creation is the one that finalizes it; and
\* records are only ever appended after the ones there are.
C33_HistoryIsAppendOnly ==
    /\ [][\A i \in 1..Len(history) :
            history[i].completed
            => i <= Len(history') /\ history'[i] = history[i]]_vars
    /\ [][\A i \in 1..Len(history) :
            (i <= Len(history') /\ history'[i] # history[i])
            => ~history[i].completed /\ history'[i].completed]_vars
    /\ [][/\ Len(history') >= Len(history)
          /\ \A i \in 1..Len(history) :
               history'[i].guildConfigId = history[i].guildConfigId]_vars

\* A guild has two finalized records with different counts, while a later
\* attempt for the same guild is running on a record of its own.
C33_Witness ==
    /\ sg.phase = "users"
    /\ \E i, j \in 1..Len(history) :
         /\ i # j /\ i # sg.hist /\ j # sg.hist
         /\ history[i].guildConfigId = sg.guild
         /\ history[j].guildConfigId = sg.guild
         /\ history[i].completed /\ history[j].completed
         /\ history[i].rolesAdded # history[j].rolesAdded
    /\ ~history[sg.hist].completed

(***************************************************************************)
(* Claims about the freshness of the lists                                 *)
(***************************************************************************)

\* C34: when a pass whose fetches were all answered has ended, every list it
\* used for its decisions that last changed on GitHub at least one sync
\* interval before the pass started is the list as it is on GitHub.
C34_ChangeUsedWithinInterval ==
    clock.phase = "done"
    => \A r \in Repos, kind \in Kinds :
         clock.passAt >= clock.changedAt[r][kind] + SYNC_INTERVAL
         => clock.used[r][kind] = {toLowerCase(x) : x \in upstream[r][kind]}

(***************************************************************************)
(* Claims about the counts of an attempt                                   *)
(***************************************************************************)

\* The user of this iteration is fully linked and the lookup in the guild
\* returned a member.
FoundMember(fault) ==
    /\ NextUser.discordAccount # "null"
    /\ NextUser.gitHubAccount # "null"
    /\ NextUser.discordAccount \in Members[sg.guild]
    /\ fault # "lookup"

\* C35: every iteration of the user loop adds one to totalProcessed exactly
\* when its user is fully linked and was found as a member of the guild, adds
\* to rolesAdded the number of roles the member gained and to rolesRemoved
\* the number the member lost in it (a rejected call changes no role and is
\* not counted); the finalized record carries these counts.
C35_CountsAreExact ==
    /\ [][\A fault \in {"none", "lookup", "contributor", "stargazer"} :
            syncGuildProcessUser(fault)
            => LET d == NextUser.discordAccount
                   before == IF FoundMember(fault) THEN memberRoles[sg.guild][d] ELSE {}
                   after == IF FoundMember(fault) THEN memberRoles'[sg.guild][d] ELSE {}
               IN  /\ sg'.totalProcessed
                        = sg.totalProcessed + (IF FoundMember(fault) THEN 1 ELSE 0)
                   /\ sg'.rolesAdded = sg.rolesAdded + Cardinality(after \ before)
                   /\ sg'.rolesRemoved = sg.rolesRemoved + Cardinality(before \ after)
                   /\ ~FoundMember(fault) => memberRoles' = memberRoles]_vars
    /\ [](sg.phase = "done"
          => /\ history[sg.hist].totalProcessed = sg.totalProcessed
             /\ history[sg.hist].rolesAdded = sg.rolesAdded
             /\ history[sg.hist].rolesRemoved = sg.rolesRemoved
             /\ sg.rolesAdded + sg.rolesRemoved <= sg.calls)

\* A finalized attempt in which a role call was rejected and another went
\* through: more calls were made than are counted.
C35_Witness ==
    /\ sg.phase = "done"
    /\ history[sg.hist].success
    /\ history[sg.hist].totalProcessed >= 2
    /\ history[sg.hist].rolesAdded + history[sg.hist].rolesRemoved > 0
    /\ sg.calls > history[sg.hist].rolesAdded + history[sg.hist].rolesRemoved

\* The Discord accounts of the users who have linked both accounts.
FullyLinkedAccounts ==
    {users[i].discordAccount :
        i \in {j \in 1..Len(users) : /\ users[j].discordAccount # "null"
                                     /\ users[j].gitHubAccount # "null"}}

\* The kinds a guild has a role configured for.
ConfiguredKinds(g) ==
    {k \in Kinds : IF k = "contributor"
                   THEN guildConfigs[g].contributorRoleId # "null"
                   ELSE guildConfigs[g].stargazerRoleId # "null"}

\* C36: a step changes the roles of a member only in the guild being
\* reconciled, only for a member whose Discord account belongs to a fully
\* linked user, and only by granting or revoking roles the guild has
\* configured: every other role of the member is held after the step exactly
\* when it was held before.
C36_OnlyManagedRolesOfLinkedMembers ==
    [][\A g \in Guilds : \A d \in Members[g] :
         memberRoles'[g][d] # memberRoles[g][d]
         => /\ g = sg.guild
            /\ d \in FullyLinkedAccounts
            /\ (memberRoles'[g][d] \ memberRoles[g][d])
                 \cup (memberRoles[g][d] \ memberRoles'[g][d])
                 \subseteq ConfiguredKinds(g)]_vars

\* Both guilds have been reconciled: in g1 a member lost managed roles and
\* kept the other role; in g2 the member got the stargazer role and still
\* holds the role g2 has not configured; the member without a GitHub account
\* still holds the stargazer role.
C36_Witness ==
    /\ sg.phase = "done"
    /\ sg.guild = "g2"
    /\ "moderator" \in memberRoles["g1"]["d2"]
    /\ memberRoles["g1"]["d2"] # RoleSeed["g1"]["d2"]
    /\ memberRoles["g2"]["d1"] = {"contributor", "stargazer"}
    /\ memberRoles["g1"]["d3"] = {"stargazer"}

(***************************************************************************)
(* Further claims about the scheduler's timers                             *)
(***************************************************************************)

\* C37: at every moment at most one timer that leads to runSync (a timeout
\* or an interval) is armed.
C37_OneArmedTimer == Cardinality(Armed) <= 1

\* A timer comes due and calls runSync, or triggerSync calls it on a running
\* scheduler.
RunSyncCalled ==
    \/ \E h \in 1..MaxTimers : fireT(h) \/ fireInitialI(h) \/ fireIntervalI(h)
    \/ isRunning /\ (triggerSyncT \/ triggerSyncI)

\* C38: a call of runSync while the Discord client is not ready starts no
\* pass and writes no history record, and leaves a timer armed that will
\* call runSync again; in the timeout revision that timer is the one held in
\* syncTimer, due after the not-ready waits.
C38_NotReadySkipsAndRearms ==
    [][(RunSyncCalled /\ ~ready)
       => /\ InFlight' = InFlight
          /\ history' = history
          /\ Armed' # {}
          /\ rev = "timeout"
               => /\ syncTimer' \in Armed'
                  /\ timers'[syncTimer'] =
                       [kind |-> "timeout", left |-> NOT_READY_RETRY]]_vars

\* The timeout revision after a timer found the client not ready: no pass
\* runs, and the handle held is that of the retry timer.
C38_Witness ==
    /\ rev = "timeout"
    /\ ~ready
    /\ api = "started"
    /\ InFlight = 0
    /\ syncTimer # 0
    /\ timers[syncTimer] = [kind |-> "timeout", left |-> NOT_READY_RETRY]
    /\ Cardinality(Armed) = 1

(***************************************************************************)
(* Claims about a stargazers call that fails part-way                      *)
(***************************************************************************)

\* C39: a page after the first that is not answered with a 2xx response
\* makes getRepositoryStargazers reject; and when the call has rejected,
\* syncGuild puts no list into repoDataMap, leaves the cache tables as they
\* were and stores no ETag.
C39_StargazersAllOrNothing ==
    /\ [][\A resp \in Responses(TRUE) :
            (stargazersFetch(resp) /\ call.attempts >= 1 /\ resp.status # 200)
            => call'.phase = "rejected"]_vars
    /\ [][(syncStargazersSettled /\ call.phase = "rejected")
          => /\ dbCache' = dbCache
             /\ lastFetched' = lastFetched
             /\ ~sg'.repoDataMap[PagedRepo].present
             /\ syncState'[PagedRepo].stargazerEtag
                  = syncState[PagedRepo].stargazerEtag
             /\ syncState'[PagedRepo].contributorEtag
                  = syncState[PagedRepo].contributorEtag]_vars

\* A call has rejected on its second page after reading a login on the first
\* that the cache table, written by an earlier call, does not hold.
C39_Witness ==
    /\ call.op = "stargazers"
    /\ call.phase = "rejected"
    /\ call.attempts = 2
    /\ call.last.status = 500
    /\ call.list = <<"alice">>
    /\ dbCache[PagedRepo].stargazer = {"bob"}
    /\ syncState[PagedRepo].stargazerEtag = ETag({"bob"})

(***************************************************************************)
(* Claims about the lengths of the waits                                   *)
(***************************************************************************)

\* C40: the backoff delay for retry number n is at least the smaller of
\* 1000 * 2^n and 60000 ms, below 1000 * 2^n + 1000 ms and never above
\* 60000 ms; the wait after a primary rate limit is never below 1000 ms.
C40_BackoffBounds ==
    /\ waits.backoff # NotComputed
       => /\ waits.backoff >= (IF 1000 * 2^waits.retryCount < 60000
                               THEN 1000 * 2^waits.retryCount ELSE 60000)
          /\ waits.backoff < 1000 * 2^waits.retryCount + 1000
          /\ waits.backoff <= 60000
    /\ waits.wait # NotComputed => waits.wait >= 1000

\* Both waits computed where the bounds bind: retry number 6 with the cap
\* reached, and a reset that already lies in the past.
C40_Witness ==
    /\ waits.retryCount = 6
    /\ waits.jitter = 999
    /\ waits.backoff = 60000
    /\ waits.untilReset < 0
    /\ waits.wait = 1000

====
